---- MODULE Spec2Model ----
(***************************************************************************)
(* Model of the SEC <-> Bing reconciliation tool (make_sec_bing_dict.py):  *)
(* the cross-source matcher, the evidence store, the reduction of the      *)
(* store into the final mapping, and the batch loop of main.               *)
(*                                                                         *)
(* Numbers.  Relative errors, tolerances and mean errors are floats in the *)
(* code.  Here they are exact integers in units of 1/ErrScale (0.005 is 5, *)
(* 0.02 is 20, 0.4 is 400); a mean is kept as the pair (sum, count) and    *)
(* compared by cross-multiplication.  The SEC values of the model are      *)
(* chosen so that |b - s| * ErrScale is divisible by |s|: RelErr is exact. *)
(* Float rounding itself is outside the model.                             *)
(*                                                                         *)
(* Dicts.  A Python dict whose iteration order the code depends on is an   *)
(* insertion-ordered sequence of entries; a dict that is only looked up by *)
(* key is a function whose DOMAIN is the set of keys present.              *)
(***************************************************************************)
EXTENDS Integers, Sequences, FiniteSets, TLC

VARIABLES
    filings,     \* main: the batch, a list of filings (line 547)
    idx,         \* main: position of the batch loop (line 561)
    pc,          \* main: the statement the run is at
    evidence,    \* main: the Evidence Store (line 558)
    rows,        \* main: the facts extracted from the current filing (line 591)
    report,      \* main: the comparison text returned by compare_sec_with_bing (line 599)
    mapping,     \* main: the final mapping (line 617)
    emitted,     \* main: number of times the mapping file was written (line 624)
    attempted,   \* history: the filings whose processing was started, in order
    failed,      \* history: the filings whose processing ended in the except clause
    folded,      \* history: the match lists folded into the store, with their tickers
    before,      \* history: the Evidence Store when the current filing was started
                 \* (between two filings: the store as it is)
    args,        \* function-level specifications: the arguments of the call
    called,      \* function-level specifications: whether the call was made
    ret          \* function-level specifications: what the call returned

vars == <<filings, idx, pc, evidence, rows, report, mapping, emitted,
          attempted, failed, folded, before, args, called, ret>>

mainVars == <<filings, idx, pc, evidence, rows, report, mapping, emitted,
              attempted, failed, folded, before>>

callVars == <<args, called, ret>>

-----------------------------------------------------------------------------
(* Units and program constants *)

\* one unit of relative error is 1/ErrScale
ErrScale == 1000

\* max_tol: float = 0.02
DefaultMaxTol == 20

\* step: float = 0.005
DefaultStep == 5

\* main: build_company_sec_mapping(evidence, min_hits=1, ...)
MainMinHits == 1

\* main: build_company_sec_mapping(evidence, ..., max_mean_err=0.4)
MainMaxMeanErr == 400

Abs(x) == IF x < 0 THEN -x ELSE x

None == [kind |-> "None"]

-----------------------------------------------------------------------------
(* Insertion-ordered dicts: sequences of [key, val] entries, keys distinct *)

Keys(d) == {d[i].key : i \in 1..Len(d)}

HasKey(d, k) == \E i \in 1..Len(d) : d[i].key = k

Get(d, k) == d[CHOOSE i \in 1..Len(d) : d[i].key = k].val

\* d[k] = v: a new key goes last, an existing key keeps its position
Put(d, k, v) ==
    IF HasKey(d, k)
    THEN [i \in 1..Len(d) |-> IF d[i].key = k THEN [key |-> k, val |-> v] ELSE d[i]]
    ELSE Append(d, [key |-> k, val |-> v])

\* list.sort(key=...) and sorted(...): stable and ascending.  lt[i, j] says
\* that the key of element i is strictly below the key of element j; the
\* result is the order of the n elements, as a sequence of their positions.
RECURSIVE InsertIdx(_, _, _)
InsertIdx(p, x, lt) ==
    IF p = <<>> THEN <<x>>
    ELSE IF lt[x, p[Len(p)]]
         THEN Append(InsertIdx(SubSeq(p, 1, Len(p) - 1), x, lt), p[Len(p)])
         ELSE Append(p, x)

RECURSIVE SortPerm(_, _)
SortPerm(n, lt) ==
    IF n = 0 THEN <<>> ELSE InsertIdx(SortPerm(n - 1, lt), n, lt)

Permute(s, p) == [i \in 1..Len(p) |-> s[p[i]]]

-----------------------------------------------------------------------------
(* find_close_matches_stepup *)

\* rel_err = abs(bval - sec_value) / abs(sec_value), in units of 1/ErrScale
RelErr(bval, sec_value) == (Abs(bval - sec_value) * ErrScale) \div Abs(sec_value)

\* a range that stops one threshold short: range(1, int(max_tol / step))
Tolerances_short(max_tol, step) == [i \in 1..((max_tol \div step) - 1) |-> i * step]

\* tolerances = [i * step for i in range(1, int(max_tol / step) + 1)]
Tolerances(max_tol, step) == [i \in 1..(max_tol \div step) |-> i * step]

\* an inner loop that takes every nonzero vendor value, whatever the error
MatchesAt_anyerr(sec_value, bing_values, tol) ==
    LET Hit(e) == e.val # 0
        hits == SelectSeq(bing_values, Hit)
    IN  [i \in 1..Len(hits) |->
            [mname |-> hits[i].key, bval |-> hits[i].val,
             rel_err |-> RelErr(hits[i].val, sec_value)]]

\* the inner loop over bing_values.items() at one tolerance
MatchesAt(sec_value, bing_values, tol) ==
    LET Hit(e) == e.val # 0 /\ RelErr(e.val, sec_value) <= tol
        hits == SelectSeq(bing_values, Hit)
    IN  [i \in 1..Len(hits) |->
            [mname |-> hits[i].key, bval |-> hits[i].val,
             rel_err |-> RelErr(hits[i].val, sec_value)]]

\* the number of vendor values the inner loop divides for (bval != 0)
NonZero(bing_values) == Len(SelectSeq(bing_values, LAMBDA e : e.val # 0))

\* matches.sort(key=lambda x: x[2])
SortMatches(matches) ==
    LET n == Len(matches)
        lt == [i \in 1..n, j \in 1..n |-> matches[i].rel_err < matches[j].rel_err]
    IN  Permute(matches, SortPerm(n, lt))

\* a loop that does not stop at the first threshold with a match and returns
\* the matches of the loosest one
StepUp_loosest(sec_value, bing_values, tols, k, divs) ==
    IF tols = <<>>
    THEN [value |-> <<>>, raised |-> FALSE, divisions |-> divs]
    ELSE [value |-> SortMatches(MatchesAt(sec_value, bing_values, tols[Len(tols)])),
          raised |-> FALSE,
          divisions |-> divs + Len(tols) * NonZero(bing_values)]

\* the loop over tolerances, from the k-th on; divs counts executions of line 444
RECURSIVE StepUp(_, _, _, _, _)
StepUp(sec_value, bing_values, tols, k, divs) ==
    IF k > Len(tols)
    THEN [value |-> <<>>, raised |-> FALSE, divisions |-> divs]
    ELSE LET matches == MatchesAt(sec_value, bing_values, tols[k])
             d == divs + NonZero(bing_values)
         IN  IF matches # <<>>
             THEN [value |-> SortMatches(matches), raised |-> FALSE,
                   divisions |-> d]
             ELSE StepUp(sec_value, bing_values, tols, k + 1, d)

\* the function without its first two lines: the first division by a zero
\* sec_value raises ZeroDivisionError
find_close_matches_stepup_noguard(sec_value, bing_values, max_tol, step) ==
    IF sec_value = 0
    THEN IF Tolerances(max_tol, step) # <<>> /\ NonZero(bing_values) > 0
         THEN [value |-> <<>>, raised |-> TRUE, divisions |-> 1]
         ELSE [value |-> <<>>, raised |-> FALSE, divisions |-> 0]
    ELSE StepUp(sec_value, bing_values, Tolerances(max_tol, step), 1, 0)

\* value: the list returned; raised: whether the call raised instead;
\* divisions: how many times it divided by abs(sec_value)
find_close_matches_stepup(sec_value, bing_values, max_tol, step) ==
    IF sec_value = 0
    THEN [value |-> <<>>, raised |-> FALSE, divisions |-> 0]
    ELSE StepUp(sec_value, bing_values, Tolerances(max_tol, step), 1, 0)

-----------------------------------------------------------------------------
(* The Evidence Store: ticker -> bing_metric -> sec_concept -> [rel_err]     *)
(* The two outer levels are only looked up by key: functions.  The inner    *)
(* level is iterated by build_company_sec_mapping: an ordered dict.         *)

RECURSIVE SumSeq(_)
SumSeq(s) == IF s = <<>> THEN 0 ELSE s[1] + SumSeq(Tail(s))

\* an append that keeps only the first observation of a pair
AppendHit_keepfirst(m_entry, concept, err) ==
    IF HasKey(m_entry, concept) THEN m_entry
    ELSE Append(m_entry, [key |-> concept, val |-> <<err>>])

\* m_entry.setdefault(concept, []).append(err)
AppendHit(m_entry, concept, err) ==
    IF HasKey(m_entry, concept)
    THEN Put(m_entry, concept, Append(Get(m_entry, concept), err))
    ELSE Append(m_entry, [key |-> concept, val |-> <<err>>])

\* m_entry = t_entry.setdefault(mname, {}); m_entry.setdefault(concept, []).append(err)
RecordMatch(t_entry, m) ==
    LET m_entry == IF m.mname \in DOMAIN t_entry THEN t_entry[m.mname] ELSE <<>>
    IN  (m.mname :> AppendHit(m_entry, m.concept, m.err)) @@ t_entry

\* for err, concept, _, mname, _ in all_matches: ... , from the k-th match on
RECURSIVE RecordAll(_, _, _)
RecordAll(t_entry, all_matches, k) ==
    IF k > Len(all_matches) THEN t_entry
    ELSE RecordAll(RecordMatch(t_entry, all_matches[k]), all_matches, k + 1)

\* a store that replaces a ticker's entry by the current filing's matches
FoldEvidence_overwrite(ev, ticker, all_matches) ==
    (ticker :> RecordAll(<<>>, all_matches, 1)) @@ ev

\* t_entry = evidence.setdefault(ticker, {}), then the loop over all_matches
FoldEvidence(ev, ticker, all_matches) ==
    LET t_entry == IF ticker \in DOMAIN ev THEN ev[ticker] ELSE <<>>
    IN  (ticker :> RecordAll(t_entry, all_matches, 1)) @@ ev

-----------------------------------------------------------------------------
(* build_company_sec_mapping *)

\* stats: (sec_concept, hits, mean_err) per candidate with observations, in
\* the order of sec_candidates.items(); mean_err is total / hits
Stats(sec_candidates) ==
    LET seen == SelectSeq(sec_candidates, LAMBDA e : e.val # <<>>)
    IN  [i \in 1..Len(seen) |->
            [concept |-> seen[i].key, hits |-> Len(seen[i].val),
             total |-> SumSeq(seen[i].val)]]

\* a ranking by lowest mean error first, then most hits
SortStats_errfirst(stats) ==
    LET n == Len(stats)
        lt == [i \in 1..n, j \in 1..n |->
                  \/ stats[i].total * stats[j].hits < stats[j].total * stats[i].hits
                  \/ /\ stats[i].total * stats[j].hits = stats[j].total * stats[i].hits
                     /\ stats[i].hits > stats[j].hits]
    IN  Permute(stats, SortPerm(n, lt))

\* stats.sort(key=lambda x: (-x[1], x[2]))
SortStats(stats) ==
    LET n == Len(stats)
        lt == [i \in 1..n, j \in 1..n |->
                  \/ stats[i].hits > stats[j].hits
                  \/ /\ stats[i].hits = stats[j].hits
                     /\ stats[i].total * stats[j].hits < stats[j].total * stats[i].hits]
    IN  Permute(stats, SortPerm(n, lt))

\* preferred = [s for s in stats if s[1] >= min_hits and s[2] <= max_mean_err]
Preferred(stats, min_hits, max_mean_err) ==
    SelectSeq(stats, LAMBDA x : x.hits >= min_hits /\ x.total <= max_mean_err * x.hits)

\* a choice that ignores the thresholds
BestConcept_nothreshold(sorted, min_hits, max_mean_err) == sorted[1].concept

\* best_concept: preferred[0] if there is one, else stats[0]
BestConcept(sorted, min_hits, max_mean_err) ==
    LET preferred == Preferred(sorted, min_hits, max_mean_err)
    IN  IF preferred # <<>> THEN preferred[1].concept ELSE sorted[1].concept

\* ticker_map: the metrics with stats, each with its best concept
TickerMap(metrics, min_hits, max_mean_err) ==
    [m \in {x \in DOMAIN metrics : Stats(metrics[x]) # <<>>} |->
        BestConcept(SortStats(Stats(metrics[m])), min_hits, max_mean_err)]

\* a reduction without the test of line 184
build_company_sec_mapping_keepempty(ev, min_hits, max_mean_err) ==
    [t \in DOMAIN ev |-> TickerMap(ev[t], min_hits, max_mean_err)]

\* mapping: the tickers whose ticker_map is not empty
build_company_sec_mapping(ev, min_hits, max_mean_err) ==
    [t \in {x \in DOMAIN ev : DOMAIN TickerMap(ev[x], min_hits, max_mean_err) # {}} |->
        TickerMap(ev[t], min_hits, max_mean_err)]

-----------------------------------------------------------------------------
(* Text and the number parsers                                              *)
(* A string is the sequence of its characters.  The characters of the       *)
(* inputs are digits, ".", "+", "-", "%", ",", " ", the em-dash, and        *)
(* letters other than those of an exponent, "inf", "nan" or "_", so that    *)
(* float() reads exactly an optional sign and digits with at most one ".".  *)
(* A float is the decimal it denotes: m * 10^e with m not divisible by 10.  *)

Some(v) == [kind |-> "Some", v |-> v]

\* a call that returned v, a call that raised the exception named e
Returns(v) == [raised |-> FALSE, error |-> "", value |-> v]

Raises(e) == [raised |-> TRUE, error |-> e, value |-> None]

\* the character U+2014
EmDash == "EM DASH"

DigitChars == <<"0", "1", "2", "3", "4", "5", "6", "7", "8", "9">>

IsDigit(c) == \E i \in 1..Len(DigitChars) : DigitChars[i] = c

DigitValue(c) == (CHOOSE i \in 1..Len(DigitChars) : DigitChars[i] = c) - 1

\* str.strip() and str.replace(",", "")
RECURSIVE LStrip(_)
LStrip(s) == IF s # <<>> /\ Head(s) = " " THEN LStrip(Tail(s)) ELSE s

RECURSIVE RStrip(_)
RStrip(s) ==
    IF s # <<>> /\ s[Len(s)] = " " THEN RStrip(SubSeq(s, 1, Len(s) - 1)) ELSE s

Strip(s) == RStrip(LStrip(s))

RemoveCommas(s) == SelectSeq(s, LAMBDA c : c # ",")

Count(s, c) == Cardinality({i \in 1..Len(s) : s[i] = c})

RECURSIVE Pow10(_)
Pow10(n) == IF n = 0 THEN 1 ELSE 10 * Pow10(n - 1)

\* the decimal m * 10^e in lowest terms
RECURSIVE Decimal(_, _)
Decimal(m, e) ==
    IF m = 0 THEN [m |-> 0, e |-> 0]
    ELSE IF m % 10 = 0 THEN Decimal(m \div 10, e + 1)
    ELSE [m |-> m, e |-> e]

\* base *= 1e3, / 100.0: a decimal times 10^k
Scale(d, k) == Decimal(d.m, d.e + k)

\* a float that is a whole number, as an integer
Whole(d) == IF d.e >= 0 THEN d.m * Pow10(d.e) ELSE d.m \div Pow10(0 - d.e)

\* the digits of s read as one integer, "." skipped
RECURSIVE DigitsValue(_, _)
DigitsValue(s, acc) ==
    IF s = <<>> THEN acc
    ELSE IF Head(s) = "." THEN DigitsValue(Tail(s), acc)
    ELSE DigitsValue(Tail(s), 10 * acc + DigitValue(Head(s)))

Unsigned(s) == IF s # <<>> /\ Head(s) \in {"+", "-"} THEN Tail(s) ELSE s

\* float(s) succeeds: surrounding blanks, a sign, digits with at most one "."
IsFloat(s) ==
    LET u == Unsigned(Strip(s))
    IN  /\ \A i \in 1..Len(u) : IsDigit(u[i]) \/ u[i] = "."
        /\ Count(u, ".") <= 1
        /\ \E i \in 1..Len(u) : IsDigit(u[i])

\* float(s) when it succeeds
FloatOf(s) ==
    LET t == Strip(s)
        u == Unsigned(t)
        frac == IF Count(u, ".") = 0 THEN 0
                ELSE Len(u) - (CHOOSE i \in 1..Len(u) : u[i] = ".")
        mag == DigitsValue(u, 0)
    IN  Decimal(IF Head(t) = "-" THEN 0 - mag ELSE mag, 0 - frac)

\* UNIT_PATTERN ^\s*([+-]?\d*\.?\d+)\s*([KMBT]?)\s*$ : the unit group
UnitOf(s) ==
    LET t == Strip(s)
    IN  IF t # <<>> /\ t[Len(t)] \in {"K", "M", "B", "T"} THEN <<t[Len(t)]>> ELSE <<>>

\* UNIT_PATTERN: the text before the unit
UnitNumber(s) ==
    LET t == Strip(s)
    IN  Strip(SubSeq(t, 1, Len(t) - Len(UnitOf(s))))

\* UNIT_PATTERN.match(s): the number is a sign, digits with at most one ".",
\* and ends with a digit
UnitMatches(s) ==
    LET u == Unsigned(UnitNumber(s))
    IN  /\ u # <<>>
        /\ \A i \in 1..Len(u) : IsDigit(u[i]) \/ u[i] = "."
        /\ Count(u, ".") <= 1
        /\ IsDigit(u[Len(u)])

\* parse_numeric of build_dataset.py; value is None or Some(string)
RECURSIVE parse_numeric(_)
parse_numeric(value) ==
    IF value = None THEN Returns(None)
    ELSE LET s == Strip(value.v)
         IN  IF s = <<>> \/ s = <<"-">> THEN Returns(None)
             ELSE IF s[Len(s)] = "%"
             THEN LET num == parse_numeric(Some(SubSeq(s, 1, Len(s) - 1)))
                  IN  IF num.raised THEN num
                      ELSE IF num.value = None THEN Returns(None)
                      ELSE Returns(Some(Scale(num.value.v, 0 - 2)))
             ELSE IF ~UnitMatches(s)
             THEN IF IsFloat(s) THEN Returns(Some(FloatOf(s)))
                  ELSE Raises("ValueError")
             ELSE LET base == FloatOf(UnitNumber(s))
                      unit == UnitOf(s)
                  IN  IF unit = <<"K">> THEN Returns(Some(Scale(base, 3)))
                      ELSE IF unit = <<"M">> THEN Returns(Some(Scale(base, 6)))
                      ELSE IF unit = <<"B">> THEN Returns(Some(Scale(base, 9)))
                      ELSE IF unit = <<"T">> THEN Returns(Some(Scale(base, 12)))
                      ELSE Returns(Some(base))

\* parse_bing_number; s is None or Some(string).  s[-1] of a string that is
\* blank once commas are removed raises IndexError
parse_bing_number(s) ==
    IF s = None \/ s.v = <<>> THEN Returns(None)
    ELSE LET t == Strip(RemoveCommas(s.v))
         IN  IF t = <<"-">> \/ t = <<EmDash>> THEN Returns(None)
             ELSE IF t = <<>> THEN Raises("IndexError")
             ELSE LET suffix == t[Len(t)]
                      num_part == IF suffix \in {"B", "M", "K"}
                                  THEN SubSeq(t, 1, Len(t) - 1) ELSE t
                      multiplier == IF suffix = "B" THEN 9
                                    ELSE IF suffix = "M" THEN 6
                                    ELSE IF suffix = "K" THEN 3
                                    ELSE 0
                  IN  IF IsFloat(num_part)
                      THEN Returns(Some(Scale(FloatOf(num_part), multiplier)))
                      ELSE Returns(None)

\* parse_sec_number: float(s) after removing commas, None when it fails
parse_sec_number(s) ==
    IF s = None \/ s.v = <<>> THEN Returns(None)
    ELSE LET t == Strip(RemoveCommas(s.v))
         IN  IF IsFloat(t) THEN Returns(Some(FloatOf(t))) ELSE Returns(None)

\* the texts of the batch: a whole number n >= 0 in digits, with a magnitude
\* suffix, the empty cell, the dash, and a cell that is no number
RECURSIVE PlainText(_)
PlainText(n) ==
    IF n < 10 THEN <<DigitChars[n + 1]>>
    ELSE PlainText(n \div 10) \o <<DigitChars[(n % 10) + 1]>>

SuffixedText(n, suffix) == PlainText(n) \o <<suffix>>

EmptyText == <<>>

DashText == <<"-">>

JunkText == <<"n", "/", "a">>

\* build_sec_numeric_map: concept -> value, from the k-th row on
RECURSIVE SecNumericMap(_, _, _)
SecNumericMap(out, fact_rows, k) ==
    IF k > Len(fact_rows) THEN out
    ELSE LET r == fact_rows[k]
             v == parse_sec_number(Some(Strip(r.value))).value
         IN  IF r.concept = "" \/ v = None
             THEN SecNumericMap(out, fact_rows, k + 1)
             ELSE SecNumericMap(Put(out, r.concept, Whole(v.v)), fact_rows, k + 1)

build_sec_numeric_map(fact_rows) == SecNumericMap(<<>>, fact_rows, 1)

-----------------------------------------------------------------------------
(* The vendor document: periods and the merged metric table                 *)
(* A statement is the list of its entries in the order of the JSON object:  *)
(* [key, val] for a metric whose value is a dict (period label -> text),    *)
(* [key, meta] for a field whose value is not a dict.                       *)

StmtKeys == <<"income_statement", "balance_sheet", "cash_flow">>

\* label.endswith(suffix)
EndsWith(label, suffix) ==
    /\ Len(suffix) <= Len(label)
    /\ SubSeq(label, Len(label) - Len(suffix) + 1, Len(label)) = suffix

\* isinstance(per_vals, dict): a metric [key, val], or the wrapper
\* [key, metrics] of the layout {"metrics": {...}}
IsDict(entry) == "val" \in DOMAIN entry \/ "metrics" \in DOMAIN entry

\* per_vals.items() of a metric: period label -> text, no value is a dict
RECURSIVE Items(_, _)
Items(per_dict, labels) ==
    IF labels = {} THEN <<>>
    ELSE LET l == CHOOSE x \in labels : TRUE
         IN  <<[key |-> l, meta |-> per_dict[l]]>> \o Items(per_dict, labels \ {l})

\* lines 349-353: the dict under "metrics" when the statement has one, else
\* the statement itself
Source(stmt) ==
    IF \E i \in 1..Len(stmt) : stmt[i].key = "metrics" /\ IsDict(stmt[i])
    THEN LET e == stmt[CHOOSE i \in 1..Len(stmt) : stmt[i].key = "metrics"]
         IN  IF "metrics" \in DOMAIN e THEN e.metrics ELSE Items(e.val, DOMAIN e.val)
    ELSE stmt

\* while f"{raw_name} ({stmt_key}) #{suffix_n}" in merged: suffix_n += 1
RECURSIVE FreeSuffix(_, _, _)
FreeSuffix(merged, qualified, suffix_n) ==
    IF HasKey(merged, qualified \o " #" \o ToString(suffix_n))
    THEN FreeSuffix(merged, qualified, suffix_n + 1)
    ELSE qualified \o " #" \o ToString(suffix_n)

\* the key without the numeric suffix
MergedName_nosuffix(merged, raw_name, stmt_key) ==
    LET qualified == raw_name \o " (" \o stmt_key \o ")"
    IN  IF ~HasKey(merged, raw_name) THEN raw_name ELSE qualified

\* the key a metric of statement stmt_key gets in merged
MergedName(merged, raw_name, stmt_key) ==
    LET qualified == raw_name \o " (" \o stmt_key \o ")"
    IN  IF ~HasKey(merged, raw_name) THEN raw_name
        ELSE IF ~HasKey(merged, qualified) THEN qualified
        ELSE FreeSuffix(merged, qualified, 2)

\* for raw_name, per_vals in source.items(): ..., from the k-th entry on
RECURSIVE MergeStatement(_, _, _, _)
MergeStatement(merged, source, stmt_key, k) ==
    IF k > Len(source) THEN merged
    ELSE IF ~IsDict(source[k]) THEN MergeStatement(merged, source, stmt_key, k + 1)
    ELSE MergeStatement(
            Put(merged, MergedName(merged, source[k].key, stmt_key), source[k].val),
            source, stmt_key, k + 1)

\* get_bing_all_metrics: the three statements merged in the order of StmtKeys
\* (a statement that is missing or no dict is the empty list)
get_bing_all_metrics(bing) ==
    LET m1 == MergeStatement(<<>>, Source(bing.income_statement), StmtKeys[1], 1)
        m2 == MergeStatement(m1, Source(bing.balance_sheet), StmtKeys[2], 1)
        m3 == MergeStatement(m2, Source(bing.cash_flow), StmtKeys[3], 1)
    IN  [periods |-> bing.periods, metrics |-> m3]

\* f"{fiscal_year} (F{fiscal_period})"
PeriodSuffix(fiscal_year, fiscal_period) ==
    fiscal_year \o <<" ", "(", "F">> \o fiscal_period \o <<")">>

\* a function that takes the first column when no label matches
pick_bing_period_index_anylabel(periods, fiscal_year, fiscal_period) ==
    IF fiscal_year = <<>> \/ fiscal_period = <<>> \/ periods = <<>> THEN None
    ELSE LET hits == {i \in 1..Len(periods) :
                         EndsWith(periods[i], PeriodSuffix(fiscal_year, fiscal_period))}
         IN  IF hits = {} THEN Some(1)
             ELSE Some(CHOOSE i \in hits : \A j \in hits : i <= j)

\* pick_bing_period_index: the position (counted from 1) of the first label
\* that ends with the suffix; None without a year, a period or a matching
\* label.  <<>> is a year or period that is None or empty
pick_bing_period_index(periods, fiscal_year, fiscal_period) ==
    IF fiscal_year = <<>> \/ fiscal_period = <<>> \/ periods = <<>> THEN None
    ELSE LET hits == {i \in 1..Len(periods) :
                         EndsWith(periods[i], PeriodSuffix(fiscal_year, fiscal_period))}
         IN  IF hits = {} THEN None
             ELSE Some(CHOOSE i \in hits : \A j \in hits : i <= j)

\* build_bing_column_values: metric -> value of one column, from the k-th
\* metric on; a missing, empty or unparsable cell is skipped
RECURSIVE ColumnValues(_, _, _, _)
ColumnValues(out, metrics, period_label, k) ==
    IF k > Len(metrics) THEN Returns(out)
    ELSE LET per_dict == metrics[k].val
             raw_val == IF period_label \in DOMAIN per_dict
                        THEN Some(per_dict[period_label]) ELSE None
         IN  IF raw_val = None \/ raw_val.v = <<>>
             THEN ColumnValues(out, metrics, period_label, k + 1)
             ELSE LET v == parse_bing_number(raw_val)
                  IN  IF v.raised THEN v
                      ELSE IF v.value = None
                      THEN ColumnValues(out, metrics, period_label, k + 1)
                      ELSE ColumnValues(Put(out, metrics[k].key, Whole(v.value.v)),
                                        metrics, period_label, k + 1)

build_bing_column_values(periods, metrics, period_index) ==
    IF period_index < 1 \/ period_index > Len(periods) THEN Returns(<<>>)
    ELSE ColumnValues(<<>>, metrics, periods[period_index], 1)

-----------------------------------------------------------------------------
(* compare_sec_with_bing *)

\* sorted(sec_map.items(), key=lambda kv: abs(kv[1]), reverse=True)
SortSecItems(sec_map) ==
    LET n == Len(sec_map)
        lt == [i \in 1..n, j \in 1..n |-> Abs(sec_map[i].val) > Abs(sec_map[j].val)]
    IN  Permute(sec_map, SortPerm(n, lt))

\* all_matches.sort(key=lambda x: x[0])
SortAllMatches(all_matches) ==
    LET n == Len(all_matches)
        lt == [i \in 1..n, j \in 1..n |-> all_matches[i].err < all_matches[j].err]
    IN  Permute(all_matches, SortPerm(n, lt))

\* the matcher's answer for each SEC item, with the default max_tol and step
MatcherCalls(sec_items, bing_col_values) ==
    [i \in 1..Len(sec_items) |->
        find_close_matches_stepup(sec_items[i].val, bing_col_values,
                                  DefaultMaxTol, DefaultStep)]

\* for concept, sec_val in sec_items: ... all_matches.append(...), from the
\* k-th item on
RECURSIVE CollectMatches(_, _, _, _)
CollectMatches(all_matches, sec_items, calls, k) ==
    IF k > Len(sec_items) THEN all_matches
    ELSE LET found == calls[k].value
             mine == [i \in 1..Len(found) |->
                         [err |-> found[i].rel_err, concept |-> sec_items[k].key,
                          sec_val |-> sec_items[k].val, mname |-> found[i].mname,
                          bval |-> found[i].bval]]
         IN  CollectMatches(all_matches \o mine, sec_items, calls, k + 1)

\* The call compare_sec_with_bing(ticker, rows, root, evidence): meta is
\* get_document_meta(root), bing is what load_bing_financials_for_ticker
\* returns.  raised: the call raised; evidence: the store when the call
\* ends; matches: the matches folded; text: what the report says
compare_sec_with_bing(ticker, fact_rows, meta, bing, ev) ==
    IF meta.fiscal_year = <<>> \/ meta.fiscal_period = <<>>
          \/ Head(meta.fiscal_period) # "Q"
    THEN [raised |-> FALSE, evidence |-> ev, matches |-> <<>>, text |-> "cannot align"]
    ELSE IF bing = None
    THEN [raised |-> FALSE, evidence |-> ev, matches |-> <<>>, text |-> "no bing"]
    ELSE LET merged == get_bing_all_metrics(bing)
             p_idx == pick_bing_period_index(merged.periods, meta.fiscal_year,
                                             meta.fiscal_period)
         IN  IF p_idx = None
             THEN [raised |-> FALSE, evidence |-> ev, matches |-> <<>>,
                   text |-> "no period"]
             ELSE LET column ==
                          build_bing_column_values(merged.periods, merged.metrics, p_idx.v)
                      bing_col_values == column.value
                      sec_items == SortSecItems(build_sec_numeric_map(fact_rows))
                      calls == MatcherCalls(sec_items, bing_col_values)
                      all_matches ==
                          SortAllMatches(CollectMatches(<<>>, sec_items, calls, 1))
                  IN  IF column.raised \/ \E i \in 1..Len(calls) : calls[i].raised
                      THEN [raised |-> TRUE, evidence |-> ev, matches |-> <<>>,
                            text |-> "raised"]
                      ELSE [raised |-> FALSE,
                            evidence |-> FoldEvidence(ev, ticker, all_matches),
                            matches |-> all_matches, text |-> "matches"]

-----------------------------------------------------------------------------
(* main: the batch loop (lines 558-626)                                     *)
(* Each statement of the try block is a step that either completes or       *)
(* raises an Exception, as the network, the file system and the documents   *)
(* decide; the except clause catches it.  What a step reads from outside    *)
(* (the rows of the instance, its DEI facts, the vendor JSON) is drawn from *)
(* the sets below.                                                          *)

\* the largest number of filings in the batch
MaxFilings == 2

Tickers == {"AAA", "BBB"}

ConceptX == "us-gaap:Revenues"

ConceptY == "us-gaap:SalesRevenueNet"

LabelQ2 == <<"A", "p", "r", " ", "2", "0", "2", "5", " ", "(", "F", "Q", "2", ")">>

LabelQ3 == <<"J", "u", "l", " ", "2", "0", "2", "5", " ", "(", "F", "Q", "3", ")">>

FactRow(concept, value) == [concept |-> concept, value |-> value]

\* what extract_company_totals_for_main_period may return
BatchRows ==
    { <<>>,
      <<FactRow(ConceptX, PlainText(1000))>>,
      <<FactRow(ConceptY, PlainText(1000))>>,
      <<FactRow(ConceptX, PlainText(1000)), FactRow(ConceptY, PlainText(200))>>,
      <<FactRow(ConceptX, PlainText(0)), FactRow(ConceptY, JunkText)>>,
      <<FactRow(ConceptX, PlainText(1000)), FactRow(ConceptX, PlainText(1010))>> }

\* what get_document_meta may return (<<>> stands for a missing fact)
BatchMeta ==
    { [fiscal_year |-> PlainText(2025), fiscal_period |-> <<"Q", "3">>],
      [fiscal_year |-> <<>>, fiscal_period |-> <<"Q", "3">>],
      [fiscal_year |-> PlainText(2025), fiscal_period |-> <<"F", "Y">>],
      [fiscal_year |-> PlainText(2024), fiscal_period |-> <<"Q", "3">>] }

\* what load_bing_financials_for_ticker may return
BatchBing ==
    { None,
      [periods |-> <<LabelQ2, LabelQ3>>,
       income_statement |->
          << [key |-> "Revenue",
              val |-> (LabelQ2 :> PlainText(900)) @@ (LabelQ3 :> SuffixedText(1, "K"))],
             [key |-> "Net Profit", val |-> (LabelQ3 :> DashText)] >>,
       balance_sheet |-> <<>>,
       cash_flow |-> <<>>],
      [periods |-> <<LabelQ3>>,
       income_statement |-> << [key |-> "Revenue", val |-> (LabelQ3 :> PlainText(1010))] >>,
       balance_sheet |-> << [key |-> "Cash", val |-> (LabelQ3 :> PlainText(201))] >>,
       cash_flow |-> << [key |-> "Revenue", val |-> (LabelQ3 :> PlainText(1000))] >>] }

Init ==
    /\ filings \in UNION {[1..n -> Tickers] : n \in 1..MaxFilings}
    /\ idx = 0
    /\ pc = "for"
    /\ evidence = <<>>
    /\ rows = <<>>
    /\ report = ""
    /\ mapping = <<>>
    /\ emitted = 0
    /\ attempted = <<>>
    /\ failed = {}
    /\ folded = <<>>
    /\ before = <<>>
    /\ args = <<>>
    /\ called = FALSE
    /\ ret = <<>>

\* line 561: the loop takes the next filing
ForNext ==
    /\ pc = "for"
    /\ idx < Len(filings)
    /\ idx' = idx + 1
    /\ attempted' = Append(attempted, idx + 1)
    /\ before' = evidence
    /\ pc' = "find_instance"
    /\ UNCHANGED <<filings, evidence, rows, report, mapping, emitted, failed,
                   folded, callVars>>

\* a loop that may be left after any filing
ForEnd_early ==
    /\ pc = "for"
    /\ idx >= 1
    /\ pc' = "build_mapping"
    /\ UNCHANGED <<filings, idx, evidence, rows, report, mapping, emitted,
                   attempted, failed, folded, before, callVars>>

\* line 561: the list is exhausted
ForEnd ==
    /\ pc = "for"
    /\ idx = Len(filings)
    /\ pc' = "build_mapping"
    /\ UNCHANGED <<filings, idx, evidence, rows, report, mapping, emitted,
                   attempted, failed, folded, before, callVars>>

\* a step of the try block raises: control goes to the except clause
Raise ==
    /\ pc' = "except"
    /\ UNCHANGED <<filings, idx, evidence, rows, report, mapping, emitted,
                   attempted, failed, folded, before, callVars>>

\* a step of the try block completes and control goes to the step at
Goto(next) ==
    /\ pc' = next
    /\ UNCHANGED <<filings, idx, evidence, rows, report, mapping, emitted,
                   attempted, failed, folded, before, callVars>>

\* the filing is left for the loop head (continue, or the end of the body):
\* rows and report are dead until they are assigned again
Continue ==
    /\ pc' = "for"
    /\ rows' = <<>>
    /\ report' = ""
    /\ before' = evidence
    /\ UNCHANGED <<filings, idx, evidence, mapping, emitted, attempted, folded,
                   callVars>>

\* lines 571-576: find_instance_xbrl_url returns a URL, returns None (the
\* filing is logged and skipped by continue) or raises
FindInstance ==
    /\ pc = "find_instance"
    /\ \/ Goto("fetch_text")
       \/ Continue /\ UNCHANGED failed
       \/ Raise

\* line 578: client.fetch_text(instance_url)
FetchText ==
    /\ pc = "fetch_text"
    /\ (Goto("save_raw") \/ Raise)

\* lines 581-585: the raw instance is written to disk
SaveRaw ==
    /\ pc = "save_raw"
    /\ (Goto("parse_xml") \/ Raise)

\* line 588: ET.fromstring(text)
ParseXml ==
    /\ pc = "parse_xml"
    /\ (Goto("extract") \/ Raise)

\* lines 589-597: parse_contexts and extract_company_totals_for_main_period
Extract ==
    /\ pc = "extract"
    /\ \/ /\ \E r \in BatchRows : rows' = r
          /\ pc' = "compare"
          /\ UNCHANGED <<filings, idx, evidence, report, mapping, emitted,
                         attempted, failed, folded, before, callVars>>
       \/ Raise

\* what main does with the outcome of the call: the exception goes to the
\* except clause, the returned text is kept for the report
CompareOutcome(res) ==
    IF res.raised
    THEN Raise
    ELSE /\ evidence' = res.evidence
         /\ report' = res.text
         /\ folded' = IF res.text = "matches"
                      THEN Append(folded, [ticker |-> filings[idx], matches |-> res.matches])
                      ELSE folded
         /\ pc' = "write_report"
         /\ UNCHANGED <<filings, idx, rows, mapping, emitted, attempted, failed,
                        before, callVars>>

\* lines 599-604: compare_sec_with_bing(ticker, rows, root, evidence=evidence);
\* reading the vendor JSON may raise before anything is folded
Compare ==
    /\ pc = "compare"
    /\ \/ \E meta \in BatchMeta, bing \in BatchBing :
             CompareOutcome(
                 compare_sec_with_bing(filings[idx], rows, meta, bing, evidence))
       \/ Raise

\* lines 606-607: the report text is written; the write may raise
WriteReport ==
    /\ pc = "write_report"
    /\ \/ Continue /\ UNCHANGED failed
       \/ Raise

\* an except clause that lets the exception out of main
Except_reraise ==
    /\ pc = "except"
    /\ pc' = "raised"
    /\ failed' = failed \cup {idx}
    /\ UNCHANGED <<filings, idx, evidence, rows, report, mapping, emitted,
                   attempted, folded, before, callVars>>

\* lines 609-614: except Exception: log, write the error line, continue
Except ==
    /\ pc = "except"
    /\ Continue
    /\ failed' = failed \cup {idx}

\* lines 617-621: mapping = build_company_sec_mapping(evidence, 1, 0.4)
BuildMapping ==
    /\ pc = "build_mapping"
    /\ mapping' = build_company_sec_mapping(evidence, MainMinHits, MainMaxMeanErr)
    /\ pc' = "write_mapping"
    /\ UNCHANGED <<filings, idx, evidence, rows, report, emitted, attempted,
                   failed, folded, before, callVars>>

\* lines 623-626: the mapping file is written and main returns 0
WriteMapping ==
    /\ pc = "write_mapping"
    /\ emitted' = emitted + 1
    /\ pc' = "done"
    /\ UNCHANGED <<filings, idx, evidence, rows, report, mapping, attempted,
                   failed, folded, before, callVars>>

Next ==
    \/ ForNext
    \/ ForEnd
    \/ FindInstance
    \/ FetchText
    \/ SaveRaw
    \/ ParseXml
    \/ Extract
    \/ Compare
    \/ WriteReport
    \/ Except
    \/ BuildMapping
    \/ WriteMapping

Spec == Init /\ [][Next]_vars

\* main runs to its end: every step that can be taken is taken
SpecLive == Spec /\ WF_vars(Next)

-----------------------------------------------------------------------------
(* Claims about the batch loop and the Evidence Store *)

\* the observations the store holds for (ticker, metric, concept)
Observations(ev, t, m, c) ==
    IF t \in DOMAIN ev /\ m \in DOMAIN ev[t] /\ HasKey(ev[t][m], c)
    THEN Get(ev[t][m], c) ELSE <<>>

\* C1: whenever the processing of a filing ends in the except clause, the
\* Evidence Store holds the observations it held when the filing was
\* started: no observation of the failed filing is retained.
C1_FailedFilingLeavesNoEvidence ==
    pc = "except" =>
        \A t \in DOMAIN evidence : \A m \in DOMAIN evidence[t] :
            \A c \in Keys(evidence[t][m]) :
                Observations(evidence, t, m, c) = Observations(before, t, m, c)

IsPrefix(s, t) == Len(s) <= Len(t) /\ SubSeq(t, 1, Len(s)) = s

\* every key of store a is a key of store b, the candidate concepts of a pair
\* keep their order, and each observation list of a is a prefix of b's
StoreExtends(a, b) ==
    \A t \in DOMAIN a :
        /\ t \in DOMAIN b
        /\ \A m \in DOMAIN a[t] :
              /\ m \in DOMAIN b[t]
              /\ Len(a[t][m]) <= Len(b[t][m])
              /\ \A i \in 1..Len(a[t][m]) :
                    /\ b[t][m][i].key = a[t][m][i].key
                    /\ IsPrefix(a[t][m][i].val, b[t][m][i].val)

\* the filings taken so far are 1, 2, ... in list order, each once
AttemptedInOrder == attempted = [i \in 1..idx |-> i]

\* C2: whatever steps raise, the loop takes every filing once and in list
\* order, no exception leaves main, and the run reaches the final mapping
\* step and returns with every filing attempted.
C2_BatchCompletes ==
    /\ [](AttemptedInOrder /\ pc # "raised")
    /\ [](pc \in {"build_mapping", "write_mapping", "done"}
             => attempted = [i \in 1..Len(filings) |-> i])
    /\ <>(pc = "done")

\* a finished run whose first filing ended in the except clause and whose
\* second filing was compared and folded
C2_Witness ==
    /\ pc = "done"
    /\ 1 \in failed
    /\ 2 \in 1..Len(filings) \ failed
    /\ folded # <<>>

\* C3: every step of a run extends the Evidence Store (no key and no
\* observation is removed or altered, each list grows at its end), and the
\* steps of the final reduction leave it unchanged.
C3_StoreAppendOnly ==
    [][/\ StoreExtends(evidence, evidence')
       /\ pc \in {"build_mapping", "write_mapping", "done"} => evidence' = evidence]_vars

\* a finished run whose reduction read a store with a list of two
\* observations, left as it was
C3_Witness ==
    /\ pc = "done"
    /\ \E t \in DOMAIN evidence : \E m \in DOMAIN evidence[t] :
          \E i \in 1..Len(evidence[t][m]) : Len(evidence[t][m][i].val) >= 2
    /\ mapping # <<>>

\* the store after folding the match lists fs in their order
RECURSIVE FoldAll(_, _, _)
FoldAll(ev, fs, k) ==
    IF k > Len(fs) THEN ev
    ELSE FoldAll(FoldEvidence(ev, fs[k].ticker, fs[k].matches), fs, k + 1)

Orders(n) == {p \in [1..n -> 1..n] : \A i, j \in 1..n : p[i] = p[j] => i = j}

\* C4: the final mapping is the one every other processing order of the
\* same per-filing match lists yields.
C4_MappingOrderIndependent ==
    pc = "done" =>
        \A p \in Orders(Len(folded)) :
            build_company_sec_mapping(FoldAll(<<>>, Permute(folded, p), 1),
                                      MainMinHits, MainMaxMeanErr) = mapping

-----------------------------------------------------------------------------
(* Specification of find_close_matches_stepup: one call on bounded inputs *)

\* the largest number of vendor metrics in one column
MaxVendor == 2

VendorNames == <<"Revenue", "NetIncome", "Assets", "Cash">>

MatcherSecValues == {0, 1000, -1000, 200}

MatcherBingValues == {0, 1001, 1005, 1018, 1050, 2000, 203, -1005}

\* (max_tol, step): the defaults, max_tol not a multiple of step, step above
\* max_tol, and a tolerance of 100 %
MatcherTolerances == {<<DefaultMaxTol, DefaultStep>>, <<20, 15>>, <<5, 15>>, <<1000, 500>>}

\* the vendor columns: dicts of up to MaxVendor metrics
MatcherColumns ==
    UNION {{[i \in 1..n |-> [key |-> VendorNames[i], val |-> v[i]]] :
                v \in [1..n -> MatcherBingValues]} : n \in 0..MaxVendor}

NoMatcherResult == [value |-> <<>>, raised |-> FALSE, divisions |-> 0]

MainIdle ==
    /\ filings = <<>>
    /\ idx = 1
    /\ pc = "idle"
    /\ evidence = <<>>
    /\ rows = <<>>
    /\ report = ""
    /\ mapping = <<>>
    /\ emitted = 0
    /\ attempted = <<>>
    /\ failed = {}
    /\ folded = <<>>
    /\ before = <<>>

InitMatcher ==
    /\ MainIdle
    /\ args \in [sec_value : MatcherSecValues, bing_values : MatcherColumns,
                 tol : MatcherTolerances]
    /\ called = FALSE
    /\ ret = NoMatcherResult

CallMatcher ==
    /\ ~called
    /\ called' = TRUE
    /\ ret' = find_close_matches_stepup(args.sec_value, args.bing_values,
                                        args.tol[1], args.tol[2])
    /\ UNCHANGED <<args, mainVars>>

NextMatcher == CallMatcher

SpecMatcher == InitMatcher /\ [][NextMatcher]_vars

-----------------------------------------------------------------------------
(* Claims about find_close_matches_stepup *)

\* the names the call returned
Returned == {ret.value[i].mname : i \in 1..Len(ret.value)}

\* the vendor metrics within relative error t of the SEC value
Within(t) ==
    {args.bing_values[i].key :
        i \in {j \in 1..Len(args.bing_values) :
                  RelErr(args.bing_values[j].val, args.sec_value) <= t}}

\* the same, among the vendor metrics whose value is not zero
WithinNonZero(t) ==
    {args.bing_values[i].key :
        i \in {j \in 1..Len(args.bing_values) :
                  /\ args.bing_values[j].val # 0
                  /\ RelErr(args.bing_values[j].val, args.sec_value) <= t}}

\* the thresholds k*step, k >= 1, that are within max_tol
Thresholds == {k * args.tol[2] : k \in 1..args.tol[1]} \cap 1..args.tol[1]

SortedByErr ==
    \A i, j \in 1..Len(ret.value) :
        i < j => ret.value[i].rel_err <= ret.value[j].rel_err

ReturnedFaithful ==
    \A i \in 1..Len(ret.value) :
        /\ HasKey(args.bing_values, ret.value[i].mname)
        /\ ret.value[i].bval = Get(args.bing_values, ret.value[i].mname)
        /\ ret.value[i].rel_err = RelErr(ret.value[i].bval, args.sec_value)

\* C8 as stated: for a nonzero SEC value the call returns exactly the vendor
\* metrics whose relative error is at most t*, the smallest threshold k*step
\* within max_tol at which some vendor metric is within t*, sorted by
\* ascending relative error (and nothing when there is no such threshold).
C8_AsStated ==
    (called /\ args.sec_value # 0) =>
        LET reach == {t \in Thresholds : Within(t) # {}}
        IN  /\ reach = {} => Returned = {}
            /\ reach # {} =>
                 LET tstar == CHOOSE t \in reach : \A u \in reach : t <= u
                 IN  Returned = Within(tstar)
            /\ SortedByErr

\* C8 (amended): for a nonzero SEC value the call returns exactly the vendor
\* metrics with a nonzero value whose relative error is at most t*, the
\* smallest threshold k*step within max_tol at which some nonzero vendor
\* value matches; a metric that matches only at a looser threshold is not
\* returned, every metric is returned once with its own value and error, and
\* the result is sorted by ascending relative error.
C8_FirstThresholdMatches ==
    (called /\ args.sec_value # 0) =>
        LET reach == {t \in Thresholds : WithinNonZero(t) # {}}
        IN  /\ ~ret.raised
            /\ reach = {} => Returned = {}
            /\ reach # {} =>
                 LET tstar == CHOOSE t \in reach : \A u \in reach : t <= u
                 IN  /\ Returned = WithinNonZero(tstar)
                     /\ Len(ret.value) = Cardinality(Returned)
            /\ ReturnedFaithful
            /\ SortedByErr

\* a call that returned the metric of the tight band and left out a metric
\* that is within max_tol but only at a looser threshold
C8_Witness ==
    /\ called
    /\ args.sec_value # 0
    /\ Returned # {}
    /\ \E m \in WithinNonZero(args.tol[1]) : m \notin Returned

\* C9 as stated: for a nonzero SEC value the result is non-empty exactly when
\* some nonzero vendor value has relative error <= max_tol, whatever step is.
C9_AsStated ==
    (called /\ args.sec_value # 0) =>
        (Returned # {} <=> WithinNonZero(args.tol[1]) # {})

\* C9 (amended): the thresholds tried are i*step for i = 1..int(max_tol/step):
\* for a nonzero SEC value the result is non-empty exactly when some nonzero
\* vendor value has relative error <= int(max_tol/step)*step, which is below
\* max_tol when max_tol is not a whole multiple of step and is no threshold
\* at all (the result is always empty) when step > max_tol.
C9_ThresholdsUpToLastMultiple ==
    (called /\ args.sec_value # 0) =>
        /\ Returned # {} <=>
             WithinNonZero((args.tol[1] \div args.tol[2]) * args.tol[2]) # {}
        /\ args.tol[2] > args.tol[1] => Returned = {}

\* a call with step > max_tol, or max_tol no multiple of step, that returned
\* nothing although a nonzero vendor value lies within max_tol
C9_Witness ==
    /\ called
    /\ args.sec_value # 0
    /\ args.tol[1] % args.tol[2] # 0
    /\ WithinNonZero(args.tol[1]) # {}
    /\ Returned = {}

\* C10: a call with SEC value 0 returns no matches, for any vendor values,
\* max_tol and step, without raising and without dividing by the SEC value.
C10_ZeroSecValueNeverMatches ==
    (called /\ args.sec_value = 0) =>
        /\ ret.value = <<>>
        /\ ~ret.raised
        /\ ret.divisions = 0

\* a call with SEC value 0, a nonzero vendor value and a threshold to try
C10_Witness ==
    /\ called
    /\ args.sec_value = 0
    /\ NonZero(args.bing_values) > 0
    /\ Tolerances(args.tol[1], args.tol[2]) # <<>>

-----------------------------------------------------------------------------
(* Specification of build_company_sec_mapping: a store grown by folding     *)
(* per-filing match lists, then one call of the reduction on it             *)

Metrics == {"Revenue", "Net Profit"}

Concepts == {ConceptX, ConceptY}

\* the largest number of match lists folded into the store before the call
MaxFolds == 3

ReducerErrs == {10, 80}

ReducerMinHits == {1, 2}

ReducerMaxMeanErr == {5, 50}

\* the match lists folded: no match, or one (metric, concept, error)
ReducerMatches ==
    {<<>>} \cup {<<[err |-> e, concept |-> c, mname |-> m]>> :
                    e \in ReducerErrs, c \in Concepts, m \in Metrics}

InitReducer ==
    /\ MainIdle
    /\ args \in [evidence : {<<>>}, folds : {0},
                 min_hits : ReducerMinHits, max_mean_err : ReducerMaxMeanErr]
    /\ called = FALSE
    /\ ret = <<>>

FoldOne ==
    /\ ~called
    /\ args.folds < MaxFolds
    /\ \E t \in Tickers, ms \in ReducerMatches :
          args' = [args EXCEPT !.evidence = FoldEvidence(@, t, ms),
                               !.folds = @ + 1]
    /\ UNCHANGED <<called, ret, mainVars>>

CallReducer ==
    /\ ~called
    /\ called' = TRUE
    /\ ret' = build_company_sec_mapping(args.evidence, args.min_hits, args.max_mean_err)
    /\ UNCHANGED <<args, mainVars>>

NextReducer == FoldOne \/ CallReducer

SpecReducer == InitReducer /\ [][NextReducer]_vars

-----------------------------------------------------------------------------
(* Claims about build_company_sec_mapping *)

\* the candidate concepts of a (ticker, metric) pair and their observations
HasPair(ev, t, m) == t \in DOMAIN ev /\ m \in DOMAIN ev[t]

Candidates(ev, t, m) ==
    IF HasPair(ev, t, m)
    THEN {c \in Keys(ev[t][m]) : Get(ev[t][m], c) # <<>>}
    ELSE {}

HitCount(ev, t, m, c) == Len(Get(ev[t][m], c))

ErrTotal(ev, t, m, c) == SumSeq(Get(ev[t][m], c))

\* hit_count >= min_hits and mean_error <= max_mean_err
IsPreferred(ev, t, m, c, min_hits, max_mean_err) ==
    /\ HitCount(ev, t, m, c) >= min_hits
    /\ ErrTotal(ev, t, m, c) <= max_mean_err * HitCount(ev, t, m, c)

PreferredOf(ev, t, m, min_hits, max_mean_err) ==
    {c \in Candidates(ev, t, m) : IsPreferred(ev, t, m, c, min_hits, max_mean_err)}

\* a ranks no lower than b: more hits, or as many hits and a mean error not above
RanksNoLower(ev, t, m, a, b) ==
    \/ HitCount(ev, t, m, a) > HitCount(ev, t, m, b)
    \/ /\ HitCount(ev, t, m, a) = HitCount(ev, t, m, b)
       /\ ErrTotal(ev, t, m, a) * HitCount(ev, t, m, b)
             <= ErrTotal(ev, t, m, b) * HitCount(ev, t, m, a)

Mapped(mp, t, m) == t \in DOMAIN mp /\ m \in DOMAIN mp[t]

\* C5: for every (ticker, metric) pair with a preferred candidate, the mapping
\* holds a preferred candidate that ranks no lower (most hits, then lowest
\* mean error) than every other preferred one, whatever the hits of the
\* candidates that are not preferred.
C5_PreferredChosen ==
    called =>
        \A t \in Tickers, m \in Metrics :
            LET pref == PreferredOf(args.evidence, t, m, args.min_hits, args.max_mean_err)
            IN  pref # {} =>
                  /\ Mapped(ret, t, m)
                  /\ ret[t][m] \in pref
                  /\ \A c \in pref : RanksNoLower(args.evidence, t, m, ret[t][m], c)

\* a reduction that chose a preferred candidate over one with more hits
C5_Witness ==
    /\ called
    /\ \E t \in Tickers, m \in Metrics :
          /\ Mapped(ret, t, m)
          /\ ret[t][m] \in PreferredOf(args.evidence, t, m, args.min_hits, args.max_mean_err)
          /\ \E c \in Candidates(args.evidence, t, m) :
                HitCount(args.evidence, t, m, c) > HitCount(args.evidence, t, m, ret[t][m])

\* C6: for every (ticker, metric) pair with candidates none of which is
\* preferred, the mapping holds a candidate that ranks no lower than every
\* other one: none has more hits, and none with as many hits has a lower
\* mean error.
C6_FallbackMostHits ==
    called =>
        \A t \in Tickers, m \in Metrics :
            LET ev == args.evidence
                cands == Candidates(ev, t, m)
            IN  (cands # {} /\ PreferredOf(ev, t, m, args.min_hits, args.max_mean_err) = {}) =>
                  /\ Mapped(ret, t, m)
                  /\ ret[t][m] \in cands
                  /\ \A c \in cands :
                        /\ HitCount(ev, t, m, c) <= HitCount(ev, t, m, ret[t][m])
                        /\ RanksNoLower(ev, t, m, ret[t][m], c)

\* a fallback choice that has more hits and a higher mean error than another
\* candidate
C6_Witness ==
    /\ called
    /\ \E t \in Tickers, m \in Metrics :
          LET ev == args.evidence
          IN  /\ Mapped(ret, t, m)
              /\ PreferredOf(ev, t, m, args.min_hits, args.max_mean_err) = {}
              /\ \E c \in Candidates(ev, t, m) :
                    /\ HitCount(ev, t, m, c) < HitCount(ev, t, m, ret[t][m])
                    /\ ErrTotal(ev, t, m, c) * HitCount(ev, t, m, ret[t][m])
                          < ErrTotal(ev, t, m, ret[t][m]) * HitCount(ev, t, m, c)

\* C7: the mapping has an entry for (ticker, metric) exactly when the store
\* holds an observation for the pair, the entry is one of the pair's
\* candidate concepts, and no ticker of the mapping has an empty entry.
C7_EntryIffEvidence ==
    called =>
        /\ \A t \in Tickers, m \in Metrics :
              /\ Mapped(ret, t, m) <=> Candidates(args.evidence, t, m) # {}
              /\ Mapped(ret, t, m) => ret[t][m] \in Candidates(args.evidence, t, m)
        /\ DOMAIN ret \subseteq Tickers
        /\ \A t \in DOMAIN ret : DOMAIN ret[t] # {} /\ DOMAIN ret[t] \subseteq Metrics

\* a reduction of a store with a ticker that has no matched metric and a
\* ticker with a matched and an unmatched metric
C7_Witness ==
    /\ called
    /\ \E t \in DOMAIN args.evidence : DOMAIN args.evidence[t] = {} /\ t \notin DOMAIN ret
    /\ \E t \in DOMAIN ret, m \in Metrics : ~Mapped(ret, t, m)

-----------------------------------------------------------------------------
(* xbrl_company_totals_service.py: contexts and company totals              *)
(* The instance document is the list of the elements root.iter() visits     *)
(* that matter here, in document order: the context elements and the        *)
(* elements that carry a value.  A namespace URI is the list of its parts   *)
(* between "/".  A date is [y, m, d].                                       *)

XBRLI_NS == <<"http:", "", "www.xbrl.org", "2003", "instance">>

XBRLDI_NS == <<"http:", "", "xbrl.org", "2006", "xbrldi">>

UsGaap2025 == <<"http:", "", "fasb.org", "us-gaap", "2025">>

UsGaap2023 == <<"http:", "", "fasb.org", "us-gaap", "2023">>

Dei2025 == <<"http:", "", "xbrl.sec.gov", "dei", "2025">>

\* NS_ALIASES, for the namespaces of the documents considered
NS_ALIASES ==
    (UsGaap2025 :> "us-gaap") @@ (Dei2025 :> "dei")
        @@ (XBRLDI_NS :> "xbrldi") @@ (XBRLI_NS :> "xbrl")

\* calendar.monthrange(year, month)[1]
DaysInMonth(year, month) ==
    IF month = 2
    THEN IF (year % 4 = 0 /\ year % 100 # 0) \/ year % 400 = 0 THEN 29 ELSE 28
    ELSE IF month \in {4, 6, 9, 11} THEN 30 ELSE 31

AllDigits(s) == \A i \in 1..Len(s) : IsDigit(s[i])

\* the text is YYYY-MM-DD and names a day of the calendar
IsIsoDate(t) ==
    /\ Len(t) = 10
    /\ t[5] = "-" /\ t[8] = "-"
    /\ AllDigits(SubSeq(t, 1, 4)) /\ AllDigits(SubSeq(t, 6, 7)) /\ AllDigits(SubSeq(t, 9, 10))
    /\ LET y == DigitsValue(SubSeq(t, 1, 4), 0)
           m == DigitsValue(SubSeq(t, 6, 7), 0)
           d == DigitsValue(SubSeq(t, 9, 10), 0)
       IN  y >= 1 /\ m \in 1..12 /\ d \in 1..DaysInMonth(y, m)

IsoDate(t) ==
    [y |-> DigitsValue(SubSeq(t, 1, 4), 0), m |-> DigitsValue(SubSeq(t, 6, 7), 0),
     d |-> DigitsValue(SubSeq(t, 9, 10), 0)]

\* _parse_date: None for no text, strptime(d, "%Y-%m-%d") otherwise (the
\* dates of the inputs are zero-padded or no dates at all)
ParseDate(d) ==
    IF d = None \/ d.v = <<>> THEN Returns(None)
    ELSE IF IsIsoDate(d.v) THEN Returns(Some(IsoDate(d.v)))
    ELSE Raises("ValueError")

\* an <xbrli:context>: id "" is a missing id attribute; period is None or
\* Some([startDate, endDate, instant]), each None or Some(text); segment is
\* None or Some(list of members [tag, dimension, text])
ContextEl(id, period, segment) ==
    [ns |-> XBRLI_NS, local |-> "context", id |-> id, contextRef |-> "",
     text |-> <<>>, period |-> period, segment |-> segment]

\* an element with a value: contextRef "" is a missing attribute
FactEl(ns, local, contextRef, text) ==
    [ns |-> ns, local |-> local, id |-> "", contextRef |-> contextRef,
     text |-> text, period |-> None, segment |-> None]

\* lines 158-165: the dimensions of a segment, from the k-th member on
RECURSIVE SegmentDims(_, _, _)
SegmentDims(dims, members, k) ==
    IF k > Len(members) THEN dims
    ELSE LET mem == members[k]
             member == Strip(mem.text)
         IN  IF mem.tag = "explicitMember" /\ mem.dimension # "" /\ member # <<>>
             THEN SegmentDims(Put(dims, mem.dimension, member), members, k + 1)
             ELSE SegmentDims(dims, members, k + 1)

\* lines 143-165: the ContextInfo of one context element
ContextInfo(ctx) ==
    LET p == ctx.period
        inst == IF p # None /\ p.v.instant # None
                THEN ParseDate(p.v.instant) ELSE Returns(None)
        start == IF p # None /\ p.v.instant = None
                 THEN ParseDate(p.v.startDate) ELSE Returns(None)
        end == IF p # None /\ p.v.instant = None
               THEN ParseDate(p.v.endDate) ELSE Returns(None)
        dims == IF ctx.segment = None THEN <<>>
                ELSE SegmentDims(<<>>, ctx.segment.v, 1)
    IN  IF inst.raised THEN inst
        ELSE IF start.raised THEN start
        ELSE IF end.raised THEN end
        ELSE Returns([id |-> ctx.id, start_date |-> start.value,
                      end_date |-> end.value, instant |-> inst.value, dims |-> dims])

\* parse_contexts: context_id -> ContextInfo, from the k-th element on
RECURSIVE ParseContexts(_, _, _)
ParseContexts(contexts, root, k) ==
    IF k > Len(root) THEN Returns(contexts)
    ELSE LET ctx == root[k]
         IN  IF ~(ctx.ns = XBRLI_NS /\ ctx.local = "context") \/ ctx.id = ""
             THEN ParseContexts(contexts, root, k + 1)
             ELSE LET info == ContextInfo(ctx)
                  IN  IF info.raised THEN info
                      ELSE ParseContexts(Put(contexts, ctx.id, info.value), root, k + 1)

parse_contexts(root) == ParseContexts(<<>>, root, 1)

\* get_document_period_end: the first DocumentPeriodEndDate that reads as a
\* date, from the k-th element on
RECURSIVE DocumentPeriodEnd(_, _)
DocumentPeriodEnd(root, k) ==
    IF k > Len(root) THEN None
    ELSE LET txt == Strip(root[k].text)
         IN  IF root[k].local = "DocumentPeriodEndDate" /\ txt # <<>> /\ IsIsoDate(txt)
             THEN Some(IsoDate(txt))
             ELSE DocumentPeriodEnd(root, k + 1)

get_document_period_end(root) == DocumentPeriodEnd(root, 1)

is_company_total_context(ctx) == ctx.dims = <<>>

\* _concept_name: the alias of the namespace, or the last part of its URI
concept_name(el) ==
    LET prefix == IF el.ns \in DOMAIN NS_ALIASES THEN NS_ALIASES[el.ns]
                  ELSE el.ns[Len(el.ns)]
    IN  prefix \o ":" \o el.local

\* the selection without the test for dimensions
Selected_anydims(el, contexts, doc_end) ==
    /\ el.contextRef # ""
    /\ el.ns # XBRLDI_NS
    /\ Strip(el.text) # <<>>
    /\ HasKey(contexts, el.contextRef)
    /\ doc_end # None =>
          LET ctx == Get(contexts, el.contextRef)
              end_or_inst == IF ctx.end_date # None THEN ctx.end_date ELSE ctx.instant
          IN  end_or_inst = doc_end

\* lines 258-285: the element passes every `continue`
Selected(el, contexts, doc_end) ==
    /\ el.contextRef # ""
    /\ el.ns # XBRLDI_NS
    /\ Strip(el.text) # <<>>
    /\ HasKey(contexts, el.contextRef)
    /\ is_company_total_context(Get(contexts, el.contextRef))
    /\ doc_end # None =>
          LET ctx == Get(contexts, el.contextRef)
              end_or_inst == IF ctx.end_date # None THEN ctx.end_date ELSE ctx.instant
          IN  end_or_inst = doc_end

\* lines 287-300: the FactRow of a selected element
ExtractedRow(el, ctx, ticker, filing_date) ==
    [ticker |-> ticker, filing_date |-> filing_date, context_id |-> ctx.id,
     concept |-> concept_name(el), value |-> Strip(el.text),
     period_start |-> ctx.start_date, period_end |-> ctx.end_date,
     instant |-> ctx.instant]

\* lines 257-303: the loop from the k-th element on; it stops once
\* len(rows) >= limit holds after an append
RECURSIVE ExtractRows(_, _, _, _, _, _, _, _)
ExtractRows(facts, root, contexts, doc_end, ticker, filing_date, limit, k) ==
    IF k > Len(root) THEN facts
    ELSE IF ~Selected(root[k], contexts, doc_end)
    THEN ExtractRows(facts, root, contexts, doc_end, ticker, filing_date, limit, k + 1)
    ELSE LET grown == Append(facts, ExtractedRow(root[k], Get(contexts, root[k].contextRef),
                                                ticker, filing_date))
         IN  IF Len(grown) >= limit THEN grown
             ELSE ExtractRows(grown, root, contexts, doc_end, ticker, filing_date,
                              limit, k + 1)

extract_company_totals_for_main_period(root, contexts, ticker, filing_date, limit) ==
    ExtractRows(<<>>, root, contexts, get_document_period_end(root), ticker,
                filing_date, limit, 1)

-----------------------------------------------------------------------------
(* Specification of the extractor: contexts = parse_contexts(root), then    *)
(* extract_company_totals_for_main_period(root, contexts, ...) called       *)
(* repeatedly on the same root and contexts                                 *)

\* the largest number of value elements in a document
MaxFacts == 2

\* how often the extractor is called on one document
MaxCalls == 2

\* the default of the parameter limit
DefaultLimit == 300

ExtractorLimits == {0, 1, 2, DefaultLimit}

DateMain == PlainText(2025) \o <<"-", "0", "7", "-", "3", "1">>

DatePrior == PlainText(2025) \o <<"-", "0", "4", "-", "3", "0">>

DateStart == PlainText(2025) \o <<"-", "0", "5", "-", "0", "1">>

Duration(start, end) ==
    Some([startDate |-> Some(start), endDate |-> Some(end), instant |-> None])

Instant(at) == Some([startDate |-> None, endDate |-> None, instant |-> Some(at)])

ExplicitMember(dimension, text) ==
    [tag |-> "explicitMember", dimension |-> dimension, text |-> text]

TypedMember(dimension, text) ==
    [tag |-> "typedMember", dimension |-> dimension, text |-> text]

MemberText == <<"u", "s", "-", "g", "a", "a", "p", ":", "M">>

\* the contexts of the documents: the main period as a duration and as an
\* instant, a segment of the main period, a prior period, and no period
ExtractorContexts ==
    << ContextEl("c1", Duration(DateStart, DateMain), None),
       ContextEl("c2", Instant(DateMain), None),
       ContextEl("c3", Duration(DateStart, DateMain),
                 Some(<<ExplicitMember("srt:ProductOrServiceAxis", MemberText)>>)),
       ContextEl("c4", Instant(DatePrior), None),
       ContextEl("c5", None, None) >>

\* the value elements a document may hold
ExtractorFacts ==
    { FactEl(UsGaap2025, "Revenues", "c1", PlainText(100)),
      FactEl(UsGaap2025, "Assets", "c2", <<" ">> \o PlainText(7) \o <<" ">>),
      FactEl(UsGaap2025, "Revenues", "c3", PlainText(40)),
      FactEl(UsGaap2023, "Assets", "c4", PlainText(90)),
      FactEl(UsGaap2025, "Shares", "c5", PlainText(3)),
      FactEl(UsGaap2025, "Revenues", "", PlainText(5)),
      FactEl(UsGaap2025, "Revenues", "c9", PlainText(5)),
      FactEl(UsGaap2025, "Liabilities", "c1", <<" ">>),
      FactEl(UsGaap2025, "Equity", "c1", <<>>),
      FactEl(XBRLDI_NS, "explicitMember", "c1", MemberText),
      FactEl(Dei2025, "DocumentPeriodEndDate", "c1", DateMain),
      FactEl(Dei2025, "DocumentPeriodEndDate", "c1", JunkText) }

ExtractorDocs ==
    {ExtractorContexts \o f : f \in UNION {[1..n -> ExtractorFacts] : n \in 0..MaxFacts}}

InitExtractor ==
    /\ MainIdle
    /\ args \in [root : ExtractorDocs, contexts : {None}, ticker : {"AAA"},
                 filing_date : {[y |-> 2025, m |-> 8, d |-> 29]},
                 limit : ExtractorLimits]
    /\ called = FALSE
    /\ ret = <<>>

\* contexts = parse_contexts(root); a call that raises ends the run
CallParseContexts ==
    /\ args.contexts = None
    /\ args' = [args EXCEPT !.contexts = Some(parse_contexts(args.root))]
    /\ UNCHANGED <<called, ret, mainVars>>

\* the extractor with a result list that outlives the call
CallExtractor_sharedrows ==
    /\ args.contexts # None
    /\ ~args.contexts.v.raised
    /\ Len(ret) < MaxCalls
    /\ called' = TRUE
    /\ ret' = Append(ret,
                 (IF ret = <<>> THEN <<>> ELSE ret[Len(ret)]) \o
                 extract_company_totals_for_main_period(
                     args.root, args.contexts.v.value, args.ticker,
                     args.filing_date, args.limit))
    /\ UNCHANGED <<args, mainVars>>

\* rows = extract_company_totals_for_main_period(root, contexts, ...)
CallExtractor ==
    /\ args.contexts # None
    /\ ~args.contexts.v.raised
    /\ Len(ret) < MaxCalls
    /\ called' = TRUE
    /\ ret' = Append(ret, extract_company_totals_for_main_period(
                              args.root, args.contexts.v.value, args.ticker,
                              args.filing_date, args.limit))
    /\ UNCHANGED <<args, mainVars>>

NextExtractor == CallParseContexts \/ CallExtractor

SpecExtractor == InitExtractor /\ [][NextExtractor]_vars

-----------------------------------------------------------------------------
(* Claims about extract_company_totals_for_main_period *)

\* the context element of the document with the given id
ContextOf(root, id) ==
    root[CHOOSE k \in 1..Len(root) : root[k].local = "context" /\ root[k].id = id]

HasContext(root, id) ==
    id # "" /\ \E k \in 1..Len(root) : root[k].local = "context" /\ root[k].id = id

\* the document states its period end date
DocEndKnown(root) ==
    \E k \in 1..Len(root) :
        root[k].local = "DocumentPeriodEndDate" /\ IsIsoDate(Strip(root[k].text))

DocEnd(root) ==
    LET k == CHOOSE i \in 1..Len(root) :
                 /\ root[i].local = "DocumentPeriodEndDate"
                 /\ IsIsoDate(Strip(root[i].text))
                 /\ \A j \in 1..(i - 1) :
                        ~(root[j].local = "DocumentPeriodEndDate"
                          /\ IsIsoDate(Strip(root[j].text)))
    IN  IsoDate(Strip(root[k].text))

\* the condition the claim gives for keeping the element el
Qualifies(el, root, contexts) ==
    /\ HasKey(contexts, el.contextRef)
    /\ Get(contexts, el.contextRef).dims = <<>>
    /\ Strip(el.text) # <<>>
    /\ el.ns # XBRLDI_NS
    /\ DocEndKnown(root) =>
          LET ctx == Get(contexts, el.contextRef)
          IN  ctx.end_date = Some(DocEnd(root)) \/ ctx.instant = Some(DocEnd(root))

\* the qualifying elements of the document, in document order
QualifyingElems(root, contexts) ==
    SelectSeq(root, LAMBDA el : Qualifies(el, root, contexts))

\* the element a fact row was made from
RowOf(el, contexts) ==
    ExtractedRow(el, Get(contexts, el.contextRef), args.ticker, args.filing_date)

QualifyingRows ==
    LET q == QualifyingElems(args.root, args.contexts.v.value)
    IN  [i \in 1..Len(q) |-> RowOf(q[i], args.contexts.v.value)]

Min2(a, b) == IF a <= b THEN a ELSE b

\* C11: up to the limit cut-off the facts returned are exactly the
\* qualifying elements, in order: every result is a prefix of the rows of
\* the qualifying elements and is all of them unless the limit was reached;
\* without a document period end date the date condition is dropped
C11_KeepsExactlyQualifying ==
    \A i \in 1..Len(ret) :
        /\ Len(ret[i]) <= Len(QualifyingRows)
        /\ ret[i] = SubSeq(QualifyingRows, 1, Len(ret[i]))
        /\ Len(ret[i]) < args.limit => ret[i] = QualifyingRows

\* a document without a period end date whose prior-period fact was kept,
\* while facts of a segment, without text or without a context were dropped
C11_Witness ==
    /\ called
    /\ ~DocEndKnown(args.root)
    /\ args.limit = DefaultLimit
    /\ \E i \in 1..Len(ret[1]) : ret[1][i].context_id = "c4"
    /\ \E k \in 1..Len(args.root) :
           args.root[k].contextRef = "c3" /\ Len(ret[1]) < MaxFacts

\* C12: for every limit >= 0 the result is the first min(limit, n)
\* qualifying elements and never holds more than limit facts
C12_FirstLimitFacts ==
    \A i \in 1..Len(ret) :
        /\ ret[i] = SubSeq(QualifyingRows, 1, Min2(args.limit, Len(QualifyingRows)))
        /\ Len(ret[i]) <= args.limit

-----------------------------------------------------------------------------
(* Specification of parse_contexts: one call on a document of two contexts *)

\* the largest number of members in a segment
MaxMembers == 2

\* the members a segment may hold: explicit members of two axes, one whose
\* text is blank, one without the attribute dimension, and a typed member
ContextMembers ==
    { ExplicitMember("srt:ProductOrServiceAxis", MemberText),
      ExplicitMember("us-gaap:StatementBusinessSegmentsAxis", MemberText),
      ExplicitMember("srt:ProductOrServiceAxis", <<" ">>),
      ExplicitMember("", MemberText),
      TypedMember("us-gaap:RangeAxis", <<>>) }

ContextSegments ==
    {None} \cup {Some(s) : s \in UNION {[1..n -> ContextMembers] : n \in 0..MaxMembers}}

ContextPeriods ==
    {None, Duration(DateStart, DateMain), Instant(DateMain), Duration(DateStart, JunkText)}

ContextDocs ==
    { << ContextEl("c1", Instant(DatePrior), None), ContextEl(id, p, s) >> :
          id \in {"c2", ""}, p \in ContextPeriods, s \in ContextSegments }

InitContexts ==
    /\ MainIdle
    /\ args \in [root : ContextDocs, contexts : {None}, ticker : {"AAA"},
                 filing_date : {[y |-> 2025, m |-> 8, d |-> 29]},
                 limit : {DefaultLimit}]
    /\ called = FALSE
    /\ ret = <<>>

NextContexts == CallParseContexts

SpecContexts == InitContexts /\ [][NextContexts]_vars

-----------------------------------------------------------------------------
(* Claims about parse_contexts and is_company_total_context *)

\* the dimensional qualifiers of a context element: the members of its
\* segment that name a dimension
Qualifiers(ctx) ==
    IF ctx.segment = None THEN {}
    ELSE {ctx.segment.v[i].dimension : i \in 1..Len(ctx.segment.v)} \ {""}

\* C14: when parse_contexts returns, every context element with an id has an
\* entry under that id whose dimension map holds every dimensional qualifier
\* of its segment, and is_company_total_context holds of the entry exactly
\* when the context carries no dimensional qualifier
C14_DimensionsComplete ==
    (args.contexts # None /\ ~args.contexts.v.raised) =>
        \A k \in 1..Len(args.root) :
            LET ctx == args.root[k]
                parsed == args.contexts.v.value
            IN  (ctx.local = "context" /\ ctx.id # "") =>
                    /\ HasKey(parsed, ctx.id)
                    /\ \A q \in Qualifiers(ctx) : HasKey(Get(parsed, ctx.id).dims, q)
                    /\ is_company_total_context(Get(parsed, ctx.id))
                           <=> Qualifiers(ctx) = {}

-----------------------------------------------------------------------------
(* Specification of pick_bing_period_index: one call on bounded inputs *)

\* the largest number of period labels of a vendor document
MaxPeriods == 2

LabelQ3Prior ==
    <<"J", "u", "l", " ", "2", "0", "2", "4", " ", "(", "F", "Q", "3", ")">>

PeriodLabels == {LabelQ2, LabelQ3, LabelQ3Prior}

\* DocumentFiscalYearFocus: missing, two years, and texts that are no year
FiscalYears ==
    {<<>>, PlainText(2025), PlainText(2024), PlainText(25), <<"F", "Y">> \o PlainText(2025)}

\* DocumentFiscalPeriodFocus: missing, two quarters, and texts that are no
\* quarter
FiscalPeriods == {<<>>, <<"Q", "3">>, <<"Q", "2">>, <<"3">>, <<"F", "Y">>}

InitPickPeriod ==
    /\ MainIdle
    /\ args \in [periods : UNION {[1..n -> PeriodLabels] : n \in 0..MaxPeriods},
                 fiscal_year : FiscalYears, fiscal_period : FiscalPeriods]
    /\ called = FALSE
    /\ ret = None

CallPickPeriod ==
    /\ ~called
    /\ called' = TRUE
    /\ ret' = pick_bing_period_index(args.periods, args.fiscal_year, args.fiscal_period)
    /\ UNCHANGED <<args, mainVars>>

NextPickPeriod == CallPickPeriod

SpecPickPeriod == InitPickPeriod /\ [][NextPickPeriod]_vars

-----------------------------------------------------------------------------
(* Claims about pick_bing_period_index *)

\* a fiscal year focus is four digits, a fiscal quarter focus is Q1..Q4
IsFiscalYear(y) == Len(y) = 4 /\ AllDigits(y)

IsFiscalQuarter(p) == Len(p) = 2 /\ p[1] = "Q" /\ p[2] \in {"1", "2", "3", "4"}

\* the labels that end with "{year} (F{quarter})"
LabelsEnding(periods, y, p) ==
    {i \in 1..Len(periods) : EndsWith(periods[i], y \o <<" ", "(", "F">> \o p \o <<")">>)}

\* C15: the call returns the first label, in list order, that ends with
\* "{year} (F{quarter})", and no match when the year or the quarter is
\* missing or malformed or when no label matches
C15_FirstMatchingLabel ==
    called =>
        LET found == LabelsEnding(args.periods, args.fiscal_year, args.fiscal_period)
        IN  IF IsFiscalYear(args.fiscal_year) /\ IsFiscalQuarter(args.fiscal_period)
               /\ found # {}
            THEN ret = Some(CHOOSE i \in found : \A j \in found : i <= j)
            ELSE ret = None

-----------------------------------------------------------------------------
(* Specification of the normalizers: one call of parse_numeric,             *)
(* parse_bing_number or parse_sec_number on one value                       *)

\* the longest text tried exhaustively
MaxLen == 3

NormalizerChars == {"5", ".", "-", "%", " ", ",", "K", "k", "T", EmDash, "x"}

\* the cells of the docstrings and of the vendor tables
NormalizerSamples ==
    { <<"1", ".", "8", "6", "B">>,
      <<"-", "4", "0", "7", ".", "0", "0", "M">>,
      <<"5", "1", ".", "5", "%">>,
      <<"1", ".", "8", "6", "b">>,
      <<"1", ".", "5", "T">>,
      <<"8", "4", "3", ".", "0", "0", "M">>,
      <<"1", ".", "1", "8">>,
      <<"1", ",", "2", "3", "4">> }

\* the values: None, every text of up to MaxLen characters, and the samples
NormalizerValues ==
    {None} \cup {Some(s) : s \in NormalizerSamples \cup
                                UNION {[1..n -> NormalizerChars] : n \in 0..MaxLen}}

Normalizers == {"parse_numeric", "parse_bing_number", "parse_sec_number"}

InitNormalizer ==
    /\ MainIdle
    /\ args \in [fn : Normalizers, value : NormalizerValues]
    /\ called = FALSE
    /\ ret = Returns(None)

CallParseNumeric ==
    /\ ~called
    /\ args.fn = "parse_numeric"
    /\ called' = TRUE
    /\ ret' = parse_numeric(args.value)
    /\ UNCHANGED <<args, mainVars>>

CallParseBingNumber ==
    /\ ~called
    /\ args.fn = "parse_bing_number"
    /\ called' = TRUE
    /\ ret' = parse_bing_number(args.value)
    /\ UNCHANGED <<args, mainVars>>

CallParseSecNumber ==
    /\ ~called
    /\ args.fn = "parse_sec_number"
    /\ called' = TRUE
    /\ ret' = parse_sec_number(args.value)
    /\ UNCHANGED <<args, mainVars>>

NextNormalizer == CallParseNumeric \/ CallParseBingNumber \/ CallParseSecNumber

SpecNormalizer == InitNormalizer /\ [][NextNormalizer]_vars

-----------------------------------------------------------------------------
(* Claims about the normalizers *)

\* the text of the value, blanks at both ends dropped
Trimmed == Strip(args.value.v)

\* None, the empty string, a dash or an em-dash
IsPlaceholder ==
    args.value = None \/ Trimmed = <<>> \/ Trimmed = <<"-">> \/ Trimmed = <<EmDash>>

\* a plain number: an optional sign and digits with an optional decimal point
IsPlainNumber(s) == IsFloat(s)

Front(s) == SubSeq(s, 1, Len(s) - 1)

Last(s) == s[Len(s)]

\* a number followed by K, M, B or T in either letter case
IsSuffixed(s) ==
    /\ s # <<>>
    /\ Last(s) \in {"K", "M", "B", "T", "k", "m", "b", "t"}
    /\ IsPlainNumber(Front(s))

\* a number followed by "%"
IsPercentage(s) == s # <<>> /\ Last(s) = "%" /\ IsPlainNumber(Front(s))

\* the power of ten a magnitude suffix stands for
SuffixExponent(c) ==
    IF c \in {"K", "k"} THEN 3
    ELSE IF c \in {"M", "m"} THEN 6
    ELSE IF c \in {"B", "b"} THEN 9
    ELSE 12

\* the text is in the numeric grammar
IsParseable(s) == IsPlainNumber(s) \/ IsSuffixed(s) \/ IsPercentage(s)

\* C16: each normalizer raises a malformed-input error for a text that is
\* non-empty, no placeholder and not in the numeric grammar; it never
\* answers "no value" for it
C16_UnparsableRaises ==
    (called /\ ~IsPlaceholder /\ ~IsParseable(Trimmed)) =>
        ret.raised /\ ret.error = "ValueError"

\* C17: for None, the empty string, a dash and an em-dash the normalizer
\* returns "no value" and does not raise
C17_PlaceholdersGiveNoValue ==
    (called /\ args.value \in {None, Some(<<>>), Some(<<"-">>), Some(<<EmDash>>)}) =>
        ret = Returns(None)

\* C18: the normalizers of the vendor text turn a number with a magnitude
\* suffix, in either letter case, into the number times 1e3, 1e6, 1e9 or
\* 1e12, and a percentage into the number divided by 100
C18_SuffixAndPercent ==
    (called /\ args.fn # "parse_sec_number" /\ ~IsPlaceholder) =>
        /\ IsSuffixed(Trimmed) =>
              ret = Returns(Some(Scale(FloatOf(Front(Trimmed)),
                                       SuffixExponent(Last(Trimmed)))))
        /\ IsPercentage(Trimmed) =>
              ret = Returns(Some(Scale(FloatOf(Front(Trimmed)), 0 - 2)))

-----------------------------------------------------------------------------
(* build_dataset.py: parse_period_label *)

UpperChars ==
    <<"A", "B", "C", "D", "E", "F", "G", "H", "I", "J", "K", "L", "M">> \o
    <<"N", "O", "P", "Q", "R", "S", "T", "U", "V", "W", "X", "Y", "Z">>

LowerChars ==
    <<"a", "b", "c", "d", "e", "f", "g", "h", "i", "j", "k", "l", "m">> \o
    <<"n", "o", "p", "q", "r", "s", "t", "u", "v", "w", "x", "y", "z">>

IsLetter(c) == \E i \in 1..Len(UpperChars) : UpperChars[i] = c \/ LowerChars[i] = c

\* str.lower() of one character
LowerChar(c) ==
    IF \E i \in 1..Len(UpperChars) : UpperChars[i] = c
    THEN LowerChars[CHOOSE i \in 1..Len(UpperChars) : UpperChars[i] = c]
    ELSE c

\* the month abbreviations strptime's %b reads, whatever the letter case
MonthNames ==
    << <<"j", "a", "n">>,
       <<"f", "e", "b">>,
       <<"m", "a", "r">>,
       <<"a", "p", "r">>,
       <<"m", "a", "y">>,
       <<"j", "u", "n">>,
       <<"j", "u", "l">>,
       <<"a", "u", "g">>,
       <<"s", "e", "p">>,
       <<"o", "c", "t">>,
       <<"n", "o", "v">>,
       <<"d", "e", "c">> >>

IsMonthName(month_str) ==
    \E m \in 1..Len(MonthNames) :
        [i \in 1..Len(month_str) |-> LowerChar(month_str[i])] = MonthNames[m]

\* datetime.strptime(month_str, "%b").month
MonthOf(month_str) ==
    CHOOSE m \in 1..Len(MonthNames) :
        [i \in 1..Len(month_str) |-> LowerChar(month_str[i])] = MonthNames[m]

\* PERIOD_PATTERN ^([A-Za-z]{3}) (\d{4}) \(FQ(\d)\)$
PeriodPatternMatches(s) ==
    /\ Len(s) = 14
    /\ \A i \in 1..3 : IsLetter(s[i])
    /\ s[4] = " "
    /\ \A i \in 5..8 : IsDigit(s[i])
    /\ SubSeq(s, 9, 12) = <<" ", "(", "F", "Q">>
    /\ IsDigit(s[13])
    /\ s[14] = ")"

\* parse_period_label: the ValueError of line 121, of line 131, and of
\* calendar.monthrange for the year 0
parse_period_label(label) ==
    LET s == Strip(label)
    IN  IF ~PeriodPatternMatches(s) THEN Raises("ValueError")
        ELSE LET month_str == SubSeq(s, 1, 3)
                 year == DigitsValue(SubSeq(s, 5, 8), 0)
                 fiscal_quarter == DigitValue(s[13])
             IN  IF ~IsMonthName(month_str) THEN Raises("ValueError")
                 ELSE IF year < 1 THEN Raises("ValueError")
                 ELSE LET month == MonthOf(month_str)
                      IN  Returns([fiscal_year |-> year,
                                   fiscal_quarter |-> fiscal_quarter,
                                   period_end_date |->
                                       [y |-> year, m |-> month,
                                        d |-> DaysInMonth(year, month)]])

-----------------------------------------------------------------------------
(* Specification of parse_period_label: one call on one label *)

LabelMonths ==
    { <<"J", "a", "n">>, <<"F", "e", "b">>, <<"A", "p", "r">>, <<"O", "c", "t">>, <<"o", "c", "t">>, <<"X", "y", "z">>, <<"S", "e", "p", "t">> }

LabelYears == {PlainText(2024), PlainText(2025), PlainText(2100), PlainText(25),
               <<"0", "0", "0", "0">>}

LabelQuarters == {"0", "1", "4", "5", "9"}

\* the label "Mon YYYY (FQn)" and four other shapes of the same parts
LabelShapes(mon, year, q) ==
    { mon \o <<" ">> \o year \o <<" ", "(", "F", "Q", q, ")">>,
      <<" ">> \o mon \o <<" ">> \o year \o <<" ", "(", "F", "Q", q, ")", " ">>,
      mon \o <<" ", " ">> \o year \o <<" ", "(", "F", "Q", q, ")">>,
      mon \o <<" ">> \o year \o <<" ", "F", "Q", q>>,
      mon \o <<" ">> \o year \o <<" ", "(", "F", "Y", ")">> }

PeriodLabelInputs ==
    UNION {LabelShapes(mon, year, q) :
              mon \in LabelMonths, year \in LabelYears, q \in LabelQuarters}

InitPeriodLabel ==
    /\ MainIdle
    /\ args \in [label : PeriodLabelInputs]
    /\ called = FALSE
    /\ ret = Returns(None)

CallParsePeriodLabel ==
    /\ ~called
    /\ called' = TRUE
    /\ ret' = parse_period_label(args.label)
    /\ UNCHANGED <<args, mainVars>>

NextPeriodLabel == CallParsePeriodLabel

SpecPeriodLabel == InitPeriodLabel /\ [][NextPeriodLabel]_vars

-----------------------------------------------------------------------------
(* Claims about parse_period_label *)

\* the label is "Mon YYYY (FQn)": a month, a year and a quarter 1..4
EncodesPeriod(s) ==
    /\ Len(s) = 14
    /\ IsMonthName(SubSeq(s, 1, 3))
    /\ s[4] = " "
    /\ AllDigits(SubSeq(s, 5, 8)) /\ DigitsValue(SubSeq(s, 5, 8), 0) >= 1
    /\ SubSeq(s, 9, 12) = <<" ", "(", "F", "Q">>
    /\ s[13] \in {"1", "2", "3", "4"}
    /\ s[14] = ")"

\* C19: a label "Mon YYYY (FQn)" gives fiscal_year YYYY, fiscal_quarter n in
\* 1..4 and the last day of that month as period_end_date; every other label
\* makes the call raise
C19_PeriodLabelParsed ==
    called =>
        LET s == Strip(args.label)
        IN  IF EncodesPeriod(s)
            THEN /\ ~ret.raised
                 /\ ret.value.fiscal_year = DigitsValue(SubSeq(s, 5, 8), 0)
                 /\ ret.value.fiscal_quarter = DigitValue(s[13])
                 /\ ret.value.fiscal_quarter \in 1..4
                 /\ ret.value.period_end_date =
                        [y |-> ret.value.fiscal_year, m |-> MonthOf(SubSeq(s, 1, 3)),
                         d |-> DaysInMonth(ret.value.fiscal_year, MonthOf(SubSeq(s, 1, 3)))]
            ELSE ret.raised

-----------------------------------------------------------------------------
(* Specification of get_bing_all_metrics: one call on a vendor document *)

\* the largest number of entries in the three statements together
MaxMetrics == 3

\* metric names: one that collides, the keys a collision is renamed to, and
\* the name of the wrapper
MergeNames == {"Revenue", "Revenue (cash_flow)", "Revenue (cash_flow) #2", "metrics"}

\* the i-th entry of a document: a metric with a value of its own, or the
\* field "currency" whose value is a string
MergeEntry(name, i) ==
    IF name = "currency" THEN [key |-> name, meta |-> "USD"]
    ELSE [key |-> name, val |-> (LabelQ3 :> PlainText(i))]

\* the entries placed in statement number s, in their order
RECURSIVE StatementOf(_, _, _)
StatementOf(placing, s, k) ==
    IF k > Len(placing) THEN <<>>
    ELSE IF placing[k][1] = s
    THEN <<MergeEntry(placing[k][2], k)>> \o StatementOf(placing, s, k + 1)
    ELSE StatementOf(placing, s, k + 1)

\* a JSON object has no key twice
DistinctKeys(stmt) == \A i, j \in 1..Len(stmt) : stmt[i].key = stmt[j].key => i = j

\* the statement as it is stored: plain, or under "metrics"
Stored(stmt, wrapped) ==
    IF wrapped THEN <<[key |-> "metrics", metrics |-> stmt]>> ELSE stmt

MergeDocs ==
    { [periods |-> <<LabelQ3>>,
       income_statement |-> Stored(StatementOf(placing, 1, 1), 1 \in w),
       balance_sheet |-> Stored(StatementOf(placing, 2, 1), 2 \in w),
       cash_flow |-> Stored(StatementOf(placing, 3, 1), 3 \in w)] :
          placing \in {f \in UNION {[1..n -> (1..3) \X (MergeNames \cup {"currency"})] :
                                        n \in 0..MaxMetrics} :
                          \A s \in 1..3 : DistinctKeys(StatementOf(f, s, 1))},
          w \in {{}, {1}, {1, 2, 3}} }

InitMerge ==
    /\ MainIdle
    /\ args \in [bing : MergeDocs]
    /\ called = FALSE
    /\ ret = [periods |-> <<>>, metrics |-> <<>>]

CallGetBingAllMetrics ==
    /\ ~called
    /\ called' = TRUE
    /\ ret' = get_bing_all_metrics(args.bing)
    /\ UNCHANGED <<args, mainVars>>

NextMerge == CallGetBingAllMetrics

SpecMerge == InitMerge /\ [][NextMerge]_vars

-----------------------------------------------------------------------------
(* Claims about get_bing_all_metrics *)

\* the statement is stored under "metrics"
IsWrapped(stmt) == Len(stmt) = 1 /\ "metrics" \in DOMAIN stmt[1]

\* the dict-valued metrics of a statement group
MetricsOf(stmt) ==
    LET inner == IF IsWrapped(stmt) THEN stmt[1].metrics ELSE stmt
    IN  {inner[i].val : i \in {j \in 1..Len(inner) : "val" \in DOMAIN inner[j]}}

InputMetrics ==
    MetricsOf(args.bing.income_statement) \cup MetricsOf(args.bing.balance_sheet)
        \cup MetricsOf(args.bing.cash_flow)

\* every input metric is in the merged table, under a key of its own
NothingLost ==
    /\ Len(ret.metrics) = Cardinality(InputMetrics)
    /\ {ret.metrics[i].val : i \in 1..Len(ret.metrics)} = InputMetrics
    /\ DistinctKeys(ret.metrics)

\* a statement stored plain has a metric named "metrics"
PlainMetricNamedMetrics ==
    \E stmt \in {args.bing.income_statement, args.bing.balance_sheet, args.bing.cash_flow} :
        ~IsWrapped(stmt) /\ \E i \in 1..Len(stmt) :
                                stmt[i].key = "metrics" /\ "val" \in DOMAIN stmt[i]

\* C20 as stated: for any names, every dict-valued metric of the three
\* statement groups is in the merged table under a key of its own
C20_AsStated == called => NothingLost

\* C20: the same, for statements in which no metric stored plain is named
\* "metrics"
C20_NoMetricLost == (called /\ ~PlainMetricNamedMetrics) => NothingLost

\* the names the metrics have in the document
RawNames(stmt) ==
    LET inner == IF IsWrapped(stmt) THEN stmt[1].metrics ELSE stmt
    IN  {inner[i].key : i \in 1..Len(inner)}

\* a name that collided twice got the grouping qualifier and a numeric
\* suffix, and no metric was lost
C20_Witness ==
    /\ called
    /\ ~PlainMetricNamedMetrics
    /\ HasKey(ret.metrics, "Revenue (cash_flow) #2")
    /\ "Revenue (cash_flow) #2" \notin
           RawNames(args.bing.income_statement) \cup RawNames(args.bing.balance_sheet)
               \cup RawNames(args.bing.cash_flow)
    /\ Len(ret.metrics) = MaxMetrics

-----------------------------------------------------------------------------
(* metric_mapping.py: the rule-based canonical mapper                       *)
(* A fact is [concept, value]: each None or Some(string).  A magnitude is   *)
(* the decimal the float denotes.                                           *)

METRIC_RULES ==
    <<
      [canonical_name |-> "Revenue",
       priority_concepts |-> <<
          <<"u", "s", "-", "g", "a", "a", "p", ":", "R", "e", "v", "e", "n",
            "u", "e", "F", "r", "o", "m", "C", "o", "n", "t", "r", "a", "c",
            "t", "W", "i", "t", "h", "C", "u", "s", "t", "o", "m", "e", "r",
            "E", "x", "c", "l", "u", "d", "i", "n", "g", "A", "s", "s", "e",
            "s", "s", "e", "d", "T", "a", "x">>,
          <<"u", "s", "-", "g", "a", "a", "p", ":", "R", "e", "v", "e", "n",
            "u", "e", "s">>,
          <<"u", "s", "-", "g", "a", "a", "p", ":", "S", "a", "l", "e", "s",
            "R", "e", "v", "e", "n", "u", "e", "N", "e", "t">>,
          <<"u", "s", "-", "g", "a", "a", "p", ":", "S", "a", "l", "e", "s",
            "R", "e", "v", "e", "n", "u", "e", "G", "o", "o", "d", "s", "N",
            "e", "t">>,
          <<"u", "s", "-", "g", "a", "a", "p", ":", "S", "a", "l", "e", "s",
            "R", "e", "v", "e", "n", "u", "e", "S", "e", "r", "v", "i", "c",
            "e", "s", "N", "e", "t">> >>,
       name_contains_any |-> <<
          <<"r", "e", "v", "e", "n", "u", "e">>,
          <<"s", "a", "l", "e", "s">> >>],
      [canonical_name |-> "GrossProfit",
       priority_concepts |-> <<
          <<"u", "s", "-", "g", "a", "a", "p", ":", "G", "r", "o", "s", "s",
            "P", "r", "o", "f", "i", "t">>,
          <<"u", "s", "-", "g", "a", "a", "p", ":", "G", "r", "o", "s", "s",
            "P", "r", "o", "f", "i", "t", "I", "n", "c", "l", "u", "d", "i",
            "n", "g", "D", "e", "p", "r", "e", "c", "i", "a", "t", "i", "o",
            "n">> >>,
       name_contains_any |-> <<
          <<"g", "r", "o", "s", "s", "p", "r", "o", "f", "i", "t">> >>],
      [canonical_name |-> "OperatingIncome",
       priority_concepts |-> <<
          <<"u", "s", "-", "g", "a", "a", "p", ":", "O", "p", "e", "r", "a",
            "t", "i", "n", "g", "I", "n", "c", "o", "m", "e", "L", "o", "s",
            "s">> >>,
       name_contains_any |-> <<
          <<"o", "p", "e", "r", "a", "t", "i", "n", "g", "i", "n", "c", "o",
            "m", "e">>,
          <<"o", "p", "e", "r", "a", "t", "i", "n", "g", "l", "o", "s", "s">> >>],
      [canonical_name |-> "NetIncome",
       priority_concepts |-> <<
          <<"u", "s", "-", "g", "a", "a", "p", ":", "N", "e", "t", "I", "n",
            "c", "o", "m", "e", "L", "o", "s", "s">>,
          <<"u", "s", "-", "g", "a", "a", "p", ":", "P", "r", "o", "f", "i",
            "t", "L", "o", "s", "s">> >>,
       name_contains_any |-> <<
          <<"n", "e", "t", "i", "n", "c", "o", "m", "e">>,
          <<"n", "e", "t", "i", "n", "c", "o", "m", "e", "l", "o", "s", "s">>,
          <<"p", "r", "o", "f", "i", "t", "l", "o", "s", "s">> >>],
      [canonical_name |-> "Assets",
       priority_concepts |-> <<
          <<"u", "s", "-", "g", "a", "a", "p", ":", "A", "s", "s", "e", "t",
            "s">> >>,
       name_contains_any |-> <<
          <<"a", "s", "s", "e", "t", "s">> >>],
      [canonical_name |-> "LiabilitiesAndEquity",
       priority_concepts |-> <<
          <<"u", "s", "-", "g", "a", "a", "p", ":", "L", "i", "a", "b", "i",
            "l", "i", "t", "i", "e", "s", "A", "n", "d", "S", "t", "o", "c",
            "k", "h", "o", "l", "d", "e", "r", "s", "E", "q", "u", "i", "t",
            "y">>,
          <<"u", "s", "-", "g", "a", "a", "p", ":", "L", "i", "a", "b", "i",
            "l", "i", "t", "i", "e", "s", "A", "n", "d", "P", "a", "r", "t",
            "n", "e", "r", "s", "C", "a", "p", "i", "t", "a", "l">> >>,
       name_contains_any |-> <<
          <<"l", "i", "a", "b", "i", "l", "i", "t", "i", "e", "s", "a", "n",
            "d", "s", "t", "o", "c", "k", "h", "o", "l", "d", "e", "r", "s",
            "e", "q", "u", "i", "t", "y">>,
          <<"l", "i", "a", "b", "i", "l", "i", "t", "i", "e", "s", "a", "n",
            "d", "p", "a", "r", "t", "n", "e", "r", "s", "c", "a", "p", "i",
            "t", "a", "l">> >>],
      [canonical_name |-> "CFO",
       priority_concepts |-> <<
          <<"u", "s", "-", "g", "a", "a", "p", ":", "N", "e", "t", "C", "a",
            "s", "h", "P", "r", "o", "v", "i", "d", "e", "d", "B", "y", "U",
            "s", "e", "d", "I", "n", "O", "p", "e", "r", "a", "t", "i", "n",
            "g", "A", "c", "t", "i", "v", "i", "t", "i", "e", "s">> >>,
       name_contains_any |-> <<
          <<"n", "e", "t", "c", "a", "s", "h", "p", "r", "o", "v", "i", "d",
            "e", "d", "b", "y", "u", "s", "e", "d", "i", "n", "o", "p", "e",
            "r", "a", "t", "i", "n", "g", "a", "c", "t", "i", "v", "i", "t",
            "i", "e", "s">> >>],
      [canonical_name |-> "CFI",
       priority_concepts |-> <<
          <<"u", "s", "-", "g", "a", "a", "p", ":", "N", "e", "t", "C", "a",
            "s", "h", "P", "r", "o", "v", "i", "d", "e", "d", "B", "y", "U",
            "s", "e", "d", "I", "n", "I", "n", "v", "e", "s", "t", "i", "n",
            "g", "A", "c", "t", "i", "v", "i", "t", "i", "e", "s">> >>,
       name_contains_any |-> <<
          <<"n", "e", "t", "c", "a", "s", "h", "p", "r", "o", "v", "i", "d",
            "e", "d", "b", "y", "u", "s", "e", "d", "i", "n", "i", "n", "v",
            "e", "s", "t", "i", "n", "g", "a", "c", "t", "i", "v", "i", "t",
            "i", "e", "s">> >>],
      [canonical_name |-> "CFF",
       priority_concepts |-> <<
          <<"u", "s", "-", "g", "a", "a", "p", ":", "N", "e", "t", "C", "a",
            "s", "h", "P", "r", "o", "v", "i", "d", "e", "d", "B", "y", "U",
            "s", "e", "d", "I", "n", "F", "i", "n", "a", "n", "c", "i", "n",
            "g", "A", "c", "t", "i", "v", "i", "t", "i", "e", "s">> >>,
       name_contains_any |-> <<
          <<"n", "e", "t", "c", "a", "s", "h", "p", "r", "o", "v", "i", "d",
            "e", "d", "b", "y", "u", "s", "e", "d", "i", "n", "f", "i", "n",
            "a", "n", "c", "i", "n", "g", "a", "c", "t", "i", "v", "i", "t",
            "i", "e", "s">> >>],
      [canonical_name |-> "EPSBasic",
       priority_concepts |-> <<
          <<"u", "s", "-", "g", "a", "a", "p", ":", "E", "a", "r", "n", "i",
            "n", "g", "s", "P", "e", "r", "S", "h", "a", "r", "e", "B", "a",
            "s", "i", "c">> >>,
       name_contains_any |-> <<
          <<"e", "a", "r", "n", "i", "n", "g", "s", "p", "e", "r", "s", "h",
            "a", "r", "e", "b", "a", "s", "i", "c">> >>],
      [canonical_name |-> "EPSDiluted",
       priority_concepts |-> <<
          <<"u", "s", "-", "g", "a", "a", "p", ":", "E", "a", "r", "n", "i",
            "n", "g", "s", "P", "e", "r", "S", "h", "a", "r", "e", "D", "i",
            "l", "u", "t", "e", "d">> >>,
       name_contains_any |-> <<
          <<"e", "a", "r", "n", "i", "n", "g", "s", "p", "e", "r", "s", "h",
            "a", "r", "e", "d", "i", "l", "u", "t", "e", "d">> >>]
    >>

\* a + b, abs(a) and a > b on floats
DecimalSum(a, b) ==
    LET e == Min2(a.e, b.e)
    IN  Decimal(a.m * Pow10(a.e - e) + b.m * Pow10(b.e - e), e)

DecimalAbs(d) == [m |-> Abs(d.m), e |-> d.e]

DecimalGreater(a, b) ==
    LET e == Min2(a.e, b.e)
    IN  a.m * Pow10(a.e - e) > b.m * Pow10(b.e - e)

\* _build_concept_magnitude: concept -> sum of abs(float(value)), from the
\* k-th fact on; float(None) is a TypeError, float of a text that is no
\* number a ValueError
RECURSIVE ConceptMagnitude(_, _, _)
ConceptMagnitude(concept_mag, facts, k) ==
    IF k > Len(facts) THEN concept_mag
    ELSE LET fd == facts[k]
         IN  IF fd.concept = None
             THEN ConceptMagnitude(concept_mag, facts, k + 1)
             ELSE IF fd.value = None \/ ~IsFloat(fd.value.v)
             THEN ConceptMagnitude(concept_mag, facts, k + 1)
             ELSE LET concept == fd.concept.v
                      old == IF HasKey(concept_mag, concept)
                             THEN Get(concept_mag, concept) ELSE Decimal(0, 0)
                      v_num == FloatOf(fd.value.v)
                  IN  ConceptMagnitude(
                          Put(concept_mag, concept, DecimalSum(old, DecimalAbs(v_num))),
                          facts, k + 1)

build_concept_magnitude(facts) == ConceptMagnitude(<<>>, facts, 1)

\* concept.split(":", 1)[-1]
LocalName(concept) ==
    IF Count(concept, ":") = 0 THEN concept
    ELSE SubSeq(concept, (CHOOSE i \in 1..Len(concept) :
                              /\ concept[i] = ":"
                              /\ \A j \in 1..(i - 1) : concept[j] # ":") + 1,
                Len(concept))

\* str.lower()
Lower(s) == [i \in 1..Len(s) |-> LowerChar(s[i])]

\* pattern in s
Contains(s, pattern) ==
    \E i \in 0..(Len(s) - Len(pattern)) : SubSeq(s, i + 1, i + Len(pattern)) = pattern

\* any(pattern in local for pattern in rule.name_contains_any)
NameMatches(rule, concept) ==
    LET local == Lower(LocalName(concept))
    IN  \E p \in 1..Len(rule.name_contains_any) :
            Contains(local, rule.name_contains_any[p])

\* step 2 of _choose_concept_for_rule, from the k-th item of concept_mag on
RECURSIVE BestByName(_, _, _, _, _)
BestByName(rule, concept_mag, k, best, best_mag) ==
    IF k > Len(concept_mag) THEN best
    ELSE LET concept == concept_mag[k].key
             mag == concept_mag[k].val
         IN  IF NameMatches(rule, concept) /\ DecimalGreater(mag, best_mag)
             THEN BestByName(rule, concept_mag, k + 1, Some(concept), mag)
             ELSE BestByName(rule, concept_mag, k + 1, best, best_mag)

\* _choose_concept_for_rule without its step 1
choose_concept_for_rule_byname(rule, concept_mag) ==
    BestByName(rule, concept_mag, 1, None, Decimal(0, 0))

\* _choose_concept_for_rule: None or Some(concept)
choose_concept_for_rule(rule, concept_mag) ==
    LET present == {i \in 1..Len(rule.priority_concepts) :
                        HasKey(concept_mag, rule.priority_concepts[i])}
    IN  IF present # {}
        THEN Some(rule.priority_concepts[CHOOSE i \in present :
                                             \A j \in present : i <= j])
        ELSE BestByName(rule, concept_mag, 1, None, Decimal(0, 0))

\* the loop of build_metric_map_for_company, from the k-th rule on
RECURSIVE MetricMap(_, _, _)
MetricMap(result, concept_mag, k) ==
    IF k > Len(METRIC_RULES) THEN result
    ELSE LET rule == METRIC_RULES[k]
             chosen == choose_concept_for_rule(rule, concept_mag)
         IN  IF chosen # None /\ chosen.v # <<>>
             THEN MetricMap(Put(result, rule.canonical_name, chosen.v),
                            concept_mag, k + 1)
             ELSE MetricMap(result, concept_mag, k + 1)

build_metric_map_for_company(facts) ==
    MetricMap(<<>>, build_concept_magnitude(facts), 1)

-----------------------------------------------------------------------------
(* Specification of the canonical mapper: one call on a list of facts *)

\* the largest number of facts of one call
MaxMapperFacts == 2

\* two priority concepts of Revenue, two concepts only the fallback of
\* Revenue matches (one without a prefix), and one no rule matches
MapperConcepts ==
    { METRIC_RULES[1].priority_concepts[2],
      METRIC_RULES[1].priority_concepts[3],
      <<"x", ":", "N", "e", "t", "S", "a", "l", "e", "s">>,
      <<"T", "o", "t", "a", "l", "R", "e", "v", "e", "n", "u", "e">>,
      <<"x", ":", "G", "o", "o", "d", "w", "i", "l", "l">> }

MapperValues ==
    {Some(PlainText(0)), Some(PlainText(5)), Some(<<"-">> \o PlainText(7)),
     Some(JunkText), None}

MapperFacts ==
    [concept : {Some(c) : c \in MapperConcepts} \cup {None}, value : MapperValues]

InitMapper ==
    /\ MainIdle
    /\ args \in [facts : UNION {[1..n -> MapperFacts] : n \in 0..MaxMapperFacts}]
    /\ called = FALSE
    /\ ret = Returns(<<>>)

CallBuildMetricMap ==
    /\ ~called
    /\ called' = TRUE
    /\ ret' = Returns(build_metric_map_for_company(args.facts))
    /\ UNCHANGED <<args, mainVars>>

NextMapper == CallBuildMetricMap

SpecMapper == InitMapper /\ [][NextMapper]_vars

-----------------------------------------------------------------------------
(* Claims about the canonical mapper *)

\* the facts of the call that have a concept and a numeric value
NumericFacts ==
    {k \in 1..Len(args.facts) :
        /\ args.facts[k].concept # None
        /\ args.facts[k].value # None
        /\ IsFloat(args.facts[k].value.v)}

\* the observed concepts: those of the numeric facts
Observed == {args.facts[k].concept.v : k \in NumericFacts}

\* the accumulated magnitude of a concept: the sum of |value| over its
\* numeric facts up to the k-th
RECURSIVE MagnitudeUpTo(_, _)
MagnitudeUpTo(c, k) ==
    IF k = 0 THEN Decimal(0, 0)
    ELSE IF k \in NumericFacts /\ args.facts[k].concept.v = c
    THEN DecimalSum(MagnitudeUpTo(c, k - 1), DecimalAbs(FloatOf(args.facts[k].value.v)))
    ELSE MagnitudeUpTo(c, k - 1)

Magnitude(c) == MagnitudeUpTo(c, Len(args.facts))

\* the positions in the rule's priority order of the observed concepts
PriorityObserved(rule) ==
    {i \in 1..Len(rule.priority_concepts) : rule.priority_concepts[i] \in Observed}

\* the observed concepts the rule's fallback substrings match
FallbackMatches(rule) == {c \in Observed : NameMatches(rule, c)}

\* C21: for each canonical rule with a priority concept among the observed
\* concepts, the item is mapped to the first such concept in the priority
\* order, whatever the magnitudes
C21_FirstPriorityConcept ==
    called =>
        \A r \in 1..Len(METRIC_RULES) :
            LET rule == METRIC_RULES[r]
                present == PriorityObserved(rule)
            IN  present # {} =>
                    /\ HasKey(ret.value, rule.canonical_name)
                    /\ Get(ret.value, rule.canonical_name) =
                           rule.priority_concepts[CHOOSE i \in present :
                                                      \A j \in present : i <= j]

\* two priority concepts of Revenue were observed, the later one with the
\* larger magnitude, and Revenue is mapped to the earlier one
C21_Witness ==
    /\ called
    /\ PriorityObserved(METRIC_RULES[1]) = {2, 3}
    /\ DecimalGreater(Magnitude(METRIC_RULES[1].priority_concepts[3]),
                      Magnitude(METRIC_RULES[1].priority_concepts[2]))
    /\ Get(ret.value, "Revenue") = METRIC_RULES[1].priority_concepts[2]

\* C22: for each rule with no priority concept observed and some observed
\* concept matching a fallback substring, the item is mapped to a matching
\* concept of the largest accumulated magnitude
C22_FallbackLargestMagnitude ==
    called =>
        \A r \in 1..Len(METRIC_RULES) :
            LET rule == METRIC_RULES[r]
            IN  (PriorityObserved(rule) = {} /\ FallbackMatches(rule) # {}) =>
                    /\ HasKey(ret.value, rule.canonical_name)
                    /\ Get(ret.value, rule.canonical_name) \in FallbackMatches(rule)
                    /\ \A c \in FallbackMatches(rule) :
                           ~DecimalGreater(Magnitude(c),
                                           Magnitude(Get(ret.value, rule.canonical_name)))

\* C23: the call does not raise, and a canonical item is in the result, with
\* an observed concept as its value, exactly when some observed concept
\* matches its rule
C23_OmittedOnlyWithoutMatch ==
    called =>
        /\ ~ret.raised
        /\ \A r \in 1..Len(METRIC_RULES) :
               LET rule == METRIC_RULES[r]
               IN  /\ HasKey(ret.value, rule.canonical_name) <=>
                          (PriorityObserved(rule) # {} \/ FallbackMatches(rule) # {})
                   /\ HasKey(ret.value, rule.canonical_name) =>
                          Get(ret.value, rule.canonical_name) \in Observed

-----------------------------------------------------------------------------
(* Specification of compare_sec_with_bing: one call, with the store it is   *)
(* handed                                                                   *)

\* what get_document_meta may return: the metas of the batch, a filing
\* without a fiscal period, and one whose period is no quarter of a year
CompareMeta ==
    BatchMeta \cup
        { [fiscal_year |-> PlainText(2025), fiscal_period |-> <<>>],
          [fiscal_year |-> PlainText(2025), fiscal_period |-> <<"Q", "5">>] }

\* the store before the call: empty, or with an observation of an earlier
\* filing
CompareStores ==
    { <<>>,
      FoldEvidence(<<>>, "AAA",
                   <<[err |-> 0, concept |-> ConceptX, sec_val |-> 1000,
                      mname |-> "Revenue", bval |-> 1000]>>) }

InitCompare ==
    /\ MainIdle
    /\ args \in [ticker : Tickers, rows : BatchRows, meta : CompareMeta,
                 bing : BatchBing, evidence : CompareStores]
    /\ called = FALSE
    /\ ret = [raised |-> FALSE, evidence |-> <<>>, matches |-> <<>>, text |-> ""]

CallCompare ==
    /\ ~called
    /\ called' = TRUE
    /\ ret' = compare_sec_with_bing(args.ticker, args.rows, args.meta, args.bing,
                                    args.evidence)
    /\ UNCHANGED <<args, mainVars>>

NextCompare == CallCompare

SpecCompare == InitCompare /\ [][NextCompare]_vars

-----------------------------------------------------------------------------
(* Claims about compare_sec_with_bing *)

\* the fiscal period names a quarter of the year
IsQuarter(fiscal_period) ==
    fiscal_period \in {<<"Q", "1">>, <<"Q", "2">>, <<"Q", "3">>, <<"Q", "4">>}

\* some vendor period label is the one of the filing's year and quarter
SomeLabelMatches(bing, meta) ==
    \E i \in 1..Len(bing.periods) :
        EndsWith(bing.periods[i],
                 meta.fiscal_year \o <<" ", "(", "F">> \o meta.fiscal_period \o <<")">>)

\* the filing cannot be aligned with a vendor column
Unalignable ==
    \/ args.meta.fiscal_year = <<>>
    \/ args.meta.fiscal_period = <<>>
    \/ ~IsQuarter(args.meta.fiscal_period)
    \/ args.bing = None
    \/ ~SomeLabelMatches(args.bing, args.meta)

-----------------------------------------------------------------------------
(* Claims about the observations of the batch *)

\* the filings compared so far for ticker t
ComparedFor(t) == {i \in 1..Len(folded) : folded[i].ticker = t}

\* the matcher returned the pair (concept c, vendor metric m) in matches ms
PairReturned(ms, m, c) == \E i \in 1..Len(ms) : ms[i].mname = m /\ ms[i].concept = c

\* the step of a compared filing: every pair the matcher returned has one
\* observation more, every other list of the store is as it was
OneObservationPerPair ==
    folded' # folded =>
        LET f == folded'[Len(folded')]
        IN  /\ \A i \in 1..Len(f.matches) :
                  Len(Observations(evidence', f.ticker, f.matches[i].mname,
                                   f.matches[i].concept)) =
                      Len(Observations(evidence, f.ticker, f.matches[i].mname,
                                       f.matches[i].concept)) + 1
            /\ \A t \in DOMAIN evidence' : \A m \in DOMAIN evidence'[t] :
                  \A c \in Keys(evidence'[t][m]) :
                      (t # f.ticker \/ ~PairReturned(f.matches, m, c)) =>
                          Observations(evidence', t, m, c) = Observations(evidence, t, m, c)

\* no list is longer than the number of filings compared for its ticker
ListsBoundedByFilings ==
    \A t \in DOMAIN evidence : \A m \in DOMAIN evidence[t] :
        \A c \in Keys(evidence[t][m]) :
            Len(Observations(evidence, t, m, c)) <= Cardinality(ComparedFor(t))

\* C25: a compared filing appends exactly one observation for every
\* (concept, vendor metric) pair the matcher returned for it and none for
\* any other pair, and no observation list is longer than the number of
\* filings compared for its ticker
C25_OneObservationPerMatchedPair ==
    [][OneObservationPerPair]_vars /\ []ListsBoundedByFilings

\* two filings of one ticker were compared, the second from rows that state
\* one concept twice, and a pair has one observation of each
C25_Witness ==
    /\ pc = "write_report"
    /\ Len(folded) = 2
    /\ folded[1].ticker = folded[2].ticker
    /\ Len(rows) = 2 /\ rows[1].concept = rows[2].concept
    /\ \E i \in 1..Len(folded[2].matches) :
          Len(Observations(evidence, folded[2].ticker, folded[2].matches[i].mname,
                           folded[2].matches[i].concept)) = 2

-----------------------------------------------------------------------------
(* Claims about the final mapping *)

\* every filing of the batch was taken and left: folded, skipped or failed
AllFilingsProcessed ==
    /\ idx = Len(filings)
    /\ attempted = [i \in 1..Len(filings) |-> i]
    /\ pc \in {"build_mapping", "write_mapping", "done"}

\* a step that builds or emits the mapping is taken after the last filing,
\* builds the mapping from the whole store and emits what was built
MappingStepAfterBatch ==
    /\ mapping' # mapping =>
          /\ AllFilingsProcessed
          /\ mapping' = build_company_sec_mapping(evidence, MainMinHits, MainMaxMeanErr)
    /\ emitted' # emitted =>
          /\ AllFilingsProcessed
          /\ emitted = 0 /\ emitted' = 1
          /\ mapping = build_company_sec_mapping(evidence, MainMinHits, MainMaxMeanErr)

-----------------------------------------------------------------------------
(* Specification of the two value maps: one call of build_bing_column_values *)
(* or of build_sec_numeric_map                                              *)

\* the texts of a cell or a fact: empty, the placeholders, no number, blank,
\* a lone comma, and numbers plain, with a suffix and with a comma
ColumnTexts ==
    { EmptyText, DashText, <<EmDash>>, JunkText, <<" ">>, <<",">>,
      PlainText(900), SuffixedText(1, "K"), <<"1", ",", "0", "0", "0">> }

\* the per-period dict of a vendor metric: without the column, or with a text
ColumnCells == {<<>>} \cup {LabelQ3 :> t : t \in ColumnTexts}

\* the merged tables of up to MaxVendor metrics
ColumnTables ==
    UNION {{[i \in 1..n |-> [key |-> VendorNames[i], val |-> c[i]]] :
                c \in [1..n -> ColumnCells]} : n \in 0..MaxVendor}

\* the rows of up to MaxFacts facts; a row may lack its concept
ColumnRows ==
    UNION {[1..n -> {FactRow(c, t) : c \in {"", ConceptX, ConceptY}, t \in ColumnTexts}] :
              n \in 0..MaxFacts}

InitColumns ==
    /\ MainIdle
    /\ \/ args \in [fn : {"build_bing_column_values"}, periods : {<<LabelQ3>>},
                    metrics : ColumnTables, period_index : {1, 2}]
       \/ args \in [fn : {"build_sec_numeric_map"}, rows : ColumnRows]
    /\ called = FALSE
    /\ ret = Returns(<<>>)

CallBuildBingColumnValues ==
    /\ ~called
    /\ args.fn = "build_bing_column_values"
    /\ called' = TRUE
    /\ ret' = build_bing_column_values(args.periods, args.metrics, args.period_index)
    /\ UNCHANGED <<args, mainVars>>

CallBuildSecNumericMap ==
    /\ ~called
    /\ args.fn = "build_sec_numeric_map"
    /\ called' = TRUE
    /\ ret' = Returns(build_sec_numeric_map(args.rows))
    /\ UNCHANGED <<args, mainVars>>

NextColumns == CallBuildBingColumnValues \/ CallBuildSecNumericMap

SpecColumns == InitColumns /\ [][NextColumns]_vars

-----------------------------------------------------------------------------
(* Claims about the two value maps *)

\* the text, once its commas and surrounding blanks are removed, is a number
\* of the vendor's grammar
VendorParseable(t) == IsParseable(Strip(RemoveCommas(t)))

\* the vendor metrics of the call whose cell in the column is missing or
\* unparsable
NoVendorValue ==
    {args.metrics[k].key : k \in {j \in 1..Len(args.metrics) :
        \/ args.period_index > Len(args.periods)
        \/ args.periods[args.period_index] \notin DOMAIN args.metrics[j].val
        \/ ~VendorParseable(args.metrics[j].val[args.periods[args.period_index]])}}

\* the concepts of the call that have a fact whose text is a plain number
SecNumeric ==
    {args.rows[k].concept : k \in {j \in 1..Len(args.rows) :
        IsPlainNumber(Strip(RemoveCommas(args.rows[j].value)))}}

\* C27: the call returns a map whose values are all numbers; a vendor
\* metric whose cell is missing or unparsable is not in the vendor column
\* map, and a concept without a numeric fact is not in the SEC map
C27_NoValueNeverInMaps ==
    called =>
        /\ ~ret.raised
        /\ \A i \in 1..Len(ret.value) : ret.value[i].val \in Int
        /\ args.fn = "build_bing_column_values" =>
               Keys(ret.value) \cap NoVendorValue = {}
        /\ args.fn = "build_sec_numeric_map" =>
               Keys(ret.value) \subseteq SecNumeric

-----------------------------------------------------------------------------
(* submissions_10x_service.py: merge_filings_into_payload                   *)
(* A filing and a stored entry are [ticker, accession_number], the fields   *)
(* the merge reads; the other fields of Filing10X are copied as they are.   *)
(* A payload is [count, filings].                                           *)

\* existing_keys: the (t, accn) of the stored entries with both truthy, from
\* the k-th entry on
RECURSIVE ExistingKeys(_, _, _)
ExistingKeys(existing_keys, filings_list, k) ==
    IF k > Len(filings_list) THEN existing_keys
    ELSE LET t == filings_list[k].ticker
             accn == filings_list[k].accession_number
         IN  IF t # "" /\ accn # ""
             THEN ExistingKeys(existing_keys \cup {<<t, accn>>}, filings_list, k + 1)
             ELSE ExistingKeys(existing_keys, filings_list, k + 1)

\* for f in new_filings: ..., from the k-th filing on
RECURSIVE MergeLoop(_, _, _, _, _)
MergeLoop(filings_list, existing_keys, added_count, new_filings, k) ==
    IF k > Len(new_filings)
    THEN [filings_list |-> filings_list, added_count |-> added_count]
    ELSE LET f == new_filings[k]
             key == <<f.ticker, f.accession_number>>
         IN  IF key \in existing_keys
             THEN MergeLoop(filings_list, existing_keys, added_count, new_filings, k + 1)
             ELSE MergeLoop(Append(filings_list, f), existing_keys \cup {key},
                            added_count + 1, new_filings, k + 1)

\* merge_filings_into_payload: the payload returned and added_count
merge_filings_into_payload(existing_payload, new_filings) ==
    LET filings_list == existing_payload.filings
        merged == MergeLoop(filings_list, ExistingKeys({}, filings_list, 1), 0,
                            new_filings, 1)
    IN  [payload |-> [count |-> Len(merged.filings_list),
                      filings |-> merged.filings_list],
         added_count |-> merged.added_count]

-----------------------------------------------------------------------------
(* Specification of merge_filings_into_payload: a merge, then the merge of  *)
(* the same filings into the payload it returned                            *)

\* the largest number of new filings of one call
MaxNewFilings == 2

\* the tickers of the watchlist are not empty (load_companies skips the
\* others); an accession number is what the submissions JSON holds
NewFilings ==
    [ticker : Tickers, accession_number : {"0001-25-000001", "0001-25-000002", ""}]

\* the stored payload: the fresh one of main, or one with an earlier entry
StoredPayloads ==
    {[count |-> Len(fs), filings |-> fs] :
        fs \in {<<>>} \cup {<<f>> : f \in {g \in NewFilings : g.ticker = "AAA"}}}

InitMergeFilings ==
    /\ MainIdle
    /\ args \in [existing_payload : StoredPayloads,
                 new_filings : UNION {[1..n -> NewFilings] : n \in 0..MaxNewFilings}]
    /\ called = 0
    /\ ret = [payload |-> [count |-> 0, filings |-> <<>>], added_count |-> 0]

\* fetch_10x_from_submissions.main, line 143
CallMergeFilings ==
    /\ called = 0
    /\ called' = 1
    /\ ret' = merge_filings_into_payload(args.existing_payload, args.new_filings)
    /\ UNCHANGED <<args, mainVars>>

\* the next run, with the payload written by this one and the same filings
CallMergeFilingsAgain ==
    /\ called = 1
    /\ called' = 2
    /\ args' = [existing_payload |-> ret.payload, new_filings |-> args.new_filings]
    /\ ret' = merge_filings_into_payload(ret.payload, args.new_filings)
    /\ UNCHANGED mainVars

NextMergeFilings == CallMergeFilings \/ CallMergeFilingsAgain

SpecMergeFilings == InitMergeFilings /\ [][NextMergeFilings]_vars

-----------------------------------------------------------------------------
(* Claims about merge_filings_into_payload *)

FilingKey(f) == <<f.ticker, f.accession_number>>

\* the entries the call appended to the stored list
Appended ==
    SubSeq(ret.payload.filings, Len(args.existing_payload.filings) + 1,
           Len(ret.payload.filings))

\* C28: the stored entries stay, no appended filing has the key of a stored
\* entry or of a filing appended earlier in the call, added_count is the
\* number of filings appended, count is the length of the list, and a
\* second merge of the same filings adds nothing
C28_MergeDeduplicates ==
    called # 0 =>
        /\ IsPrefix(args.existing_payload.filings, ret.payload.filings)
        /\ \A i \in 1..Len(Appended) :
              /\ \A k \in 1..Len(args.existing_payload.filings) :
                    FilingKey(args.existing_payload.filings[k]) # FilingKey(Appended[i])
              /\ \A j \in 1..(i - 1) : FilingKey(Appended[j]) # FilingKey(Appended[i])
        /\ ret.added_count = Len(Appended)
        /\ ret.payload.count = Len(ret.payload.filings)
        /\ called = 2 =>
              /\ ret.added_count = 0
              /\ ret.payload = args.existing_payload

-----------------------------------------------------------------------------
(* Claims about the errors of the batch and the thresholds of main *)

-----------------------------------------------------------------------------
(* sec_client.py: SecClient._get                                            *)
(* args is the frame of the call: i, the position in [0.0] + _BACKOFFS      *)
(* (counted from 1); pc, the statement it is at; r, the status of the       *)
(* response; err, the exception in flight; attempts, the outcomes of        *)
(* self.s.get so far; slept, the arguments of time.sleep so far.            *)

\* _BACKOFFS = [0.5, 1.0, 2.0, 4.0], in tenths of a second
BACKOFFS == <<5, 10, 20, 40>>

\* [0.0] + _BACKOFFS
Backoffs == <<0>> \o BACKOFFS

\* if r.status_code in (429, 500, 502, 503, 504)
RetryStatuses == {429, 500, 502, 503, 504}

\* a raise_for_status that raises for client errors only
RaisesForStatus_clientonly(status) == status \in 400..499

\* requests: Response.raise_for_status raises HTTPError for 400 <= status < 600
RaisesForStatus(status) == status \in 400..599

\* what self.s.get may do: return a response with a status, or raise a
\* RequestException
GetOutcomes ==
    {[kind |-> "response", status |-> st, error |-> ""] : st \in {200, 404, 429, 503}}
        \cup {[kind |-> "raise", status |-> 0, error |-> "ConnectionError"]}

InitGet ==
    /\ MainIdle
    /\ args = [i |-> 0, pc |-> "for", r |-> 0, err |-> "", attempts |-> <<>>,
               slept |-> <<>>]
    /\ called = FALSE
    /\ ret = Returns(None)

\* line 104: the loop takes the next backoff and throttles; line 120 when
\* the list is exhausted
ForBackoff ==
    /\ args.pc = "for"
    /\ IF args.i < Len(Backoffs)
       THEN /\ args' = [args EXCEPT !.i = args.i + 1, !.pc = "get"]
            /\ UNCHANGED <<called, ret>>
       ELSE /\ args' = [args EXCEPT !.pc = "done"]
            /\ called' = TRUE
            /\ ret' = Raises("RuntimeError")
    /\ UNCHANGED mainVars

\* line 107: r = self.s.get(url, timeout=_REQ_TIMEOUT)
SessionGet ==
    /\ args.pc = "get"
    /\ \E o \in GetOutcomes :
          args' = [args EXCEPT !.attempts = Append(args.attempts, o),
                               !.r = o.status, !.err = o.error,
                               !.pc = IF o.kind = "raise" THEN "except" ELSE "check"]
    /\ UNCHANGED <<called, ret, mainVars>>

\* lines 109-115: the status check; i == len(_BACKOFFS) is the last position
CheckStatus ==
    /\ args.pc = "check"
    /\ IF args.r \in RetryStatuses
       THEN IF args.i = Len(Backoffs) /\ RaisesForStatus(args.r)
            THEN /\ args' = [args EXCEPT !.err = "HTTPError", !.pc = "except"]
                 /\ UNCHANGED <<called, ret>>
            ELSE /\ args' = [args EXCEPT !.slept = Append(args.slept, Backoffs[args.i]),
                                         !.pc = "for"]
                 /\ UNCHANGED <<called, ret>>
       ELSE IF RaisesForStatus(args.r)
            THEN /\ args' = [args EXCEPT !.err = "HTTPError", !.pc = "except"]
                 /\ UNCHANGED <<called, ret>>
            ELSE /\ args' = [args EXCEPT !.pc = "done"]
                 /\ called' = TRUE
                 /\ ret' = Returns(Some(args.r))
    /\ UNCHANGED mainVars

\* lines 116-119: except requests.RequestException
ExceptRequestException ==
    /\ args.pc = "except"
    /\ IF args.i = Len(Backoffs)
       THEN /\ args' = [args EXCEPT !.pc = "done"]
            /\ called' = TRUE
            /\ ret' = Raises(args.err)
       ELSE /\ args' = [args EXCEPT !.slept = Append(args.slept, Backoffs[args.i]),
                                    !.pc = "for"]
            /\ UNCHANGED <<called, ret>>
    /\ UNCHANGED mainVars

NextGet == ForBackoff \/ SessionGet \/ CheckStatus \/ ExceptRequestException

SpecGet == InitGet /\ [][NextGet]_vars

\* the call runs on: the session answers or fails, and sleeps end
SpecGetLive == SpecGet /\ WF_vars(NextGet)

-----------------------------------------------------------------------------
(* Claims about SecClient._get *)

\* the outcome passes the status check: a response with no error status
Passes(o) == o.kind = "response" /\ o.status \notin 400..599

\* the exception an outcome that does not pass ends in
FailureOf(o) == IF o.kind = "raise" THEN o.error ELSE "HTTPError"

\* the call has ended as the claim says: with the first passing response,
\* or, after one attempt per position, with the failure of the last one
EndedAsClaimed ==
    LET n == Len(args.attempts)
    IN  /\ n >= 1
        /\ \A k \in 1..(n - 1) : ~Passes(args.attempts[k])
        /\ IF Passes(args.attempts[n])
           THEN ret = Returns(Some(args.attempts[n].status))
           ELSE n = Len(BACKOFFS) + 1 /\ ret = Raises(FailureOf(args.attempts[n]))

\* C30: _get makes at most one attempt per backoff entry plus one, retries
\* after every attempt that does not pass but the last, returns the first
\* response that passes or re-raises the last failure, never raises the
\* trailing RuntimeError, and ends
C30_GetTerminates ==
    /\ [](Len(args.attempts) <= Len(BACKOFFS) + 1)
    /\ [](called => EndedAsClaimed)
    /\ [](ret.error # "RuntimeError")
    /\ <>called

\* four attempts were retried, after a retryable status, a client error and
\* a failed request, and the fifth ended in a retryable status that was
\* raised to the caller
C30_Witness ==
    /\ called
    /\ Len(args.attempts) = Len(BACKOFFS) + 1
    /\ args.attempts[1].status = 503
    /\ args.attempts[2].status = 404
    /\ args.attempts[3].kind = "raise"
    /\ args.attempts[5].status = 429
    /\ ret = Raises("HTTPError")
    /\ Len(args.slept) = Len(BACKOFFS)

====
